---- MODULE Spec2Model ----
(***************************************************************************)
(* A model of the hierarchical knowledge-base renderer (zomorodiyan/graph). *)
(*                                                                         *)
(* Part 1: due-date formatting (src/src/html_generator.py).                *)
(* Part 2: the markdown tree on disk, its discovery, the three-level       *)
(*         projection and the breadcrumbs (src/src/hierarchy_builder.py,   *)
(*         src/src/graph.py).                                              *)
(***************************************************************************)
EXTENDS Integers, Sequences, FiniteSets, TLC

VARIABLES
    today,        \* what datetime.now().date() returns at this moment
    ticks,        \* midnights passed since the pass started
    rendered,     \* the items rendered so far: due value, today at the call, html
    passState,    \* "running", or "raised" once an exception left _format_due_date
    roots,        \* the search roots that exist on disk, among "data" and "pdata"
    mdFiles,      \* the X.md files on disk: [root, parts], parts the path below the root
    dirs,         \* the directories on disk below the roots: [root, parts]
    content,      \* the lines of every .md file
    treeCall,     \* the last call into the tree code: [op, arg, exc, result]
    yamlFile,     \* what is at yaml_file_path: no file, bad YAML, or a document
    yamlCall,     \* the last call into FileUtils: [op, arg, exc, result]
    editors,      \* the edit calls under way, one per process: [pc, op, snapshot, doc, result, exc]
    saved,        \* the processes whose save wrote the file, in the order of the writes
    html,         \* the pages in ../html: base name -> the file the page was made from
    genPass,      \* the generation pass of graph.py: [pc, pending]
    launcher,     \* run.py: [pc, command, yaml, returncode, port, server, browser]
    busy          \* the ports other processes are bound to

dueVars == <<today, ticks, rendered, passState>>

fsVars == <<roots, mdFiles, dirs, content>>

treeVars == <<roots, mdFiles, dirs, content, treeCall>>

yamlVars == <<yamlFile, yamlCall>>

editVars == <<editors, saved>>

genVars == <<html, genPass>>

runVars == <<launcher, busy>>

vars == <<today, ticks, rendered, passState, roots, mdFiles, dirs, content, treeCall,
          yamlFile, yamlCall, editors, saved, html, genPass, launcher, busy>>

\* ------------------------------------------------------------------ bounds

MaxNodes == 2
MaxTicks == 1
MaxDepth == 5
MaxItems == 3
MaxLines == 2
MaxPorts == 3

\* ---------------------------------------------------------------- calendar
\* datetime.date: proleptic Gregorian calendar, as date.toordinal() counts it.

IsLeap(y) == (y % 4 = 0) /\ ((y % 100 # 0) \/ (y % 400 = 0))

DaysInMonth(y, m) ==
    IF m = 2 THEN (IF IsLeap(y) THEN 29 ELSE 28)
    ELSE IF m \in {4, 6, 9, 11} THEN 30 ELSE 31

RECURSIVE DaysBeforeMonth(_, _)
DaysBeforeMonth(y, m) ==
    IF m <= 1 THEN 0 ELSE DaysBeforeMonth(y, m - 1) + DaysInMonth(y, m - 1)

DaysBeforeYear(y) ==
    LET p == y - 1 IN 365 * p + (p \div 4) - (p \div 100) + (p \div 400)

\* date.toordinal()
Ordinal(dt) == DaysBeforeYear(dt.y) + DaysBeforeMonth(dt.y, dt.m) + dt.d

\* date(y, m, d) accepts exactly the days of the calendar.
ValidDate(y, m, d) ==
    /\ y \in 1..9999
    /\ m \in 1..12
    /\ d \in 1..DaysInMonth(y, m)

Date(y, m, d) == [y |-> y, m |-> m, d |-> d]

NextDay(dt) ==
    IF dt.d < DaysInMonth(dt.y, dt.m) THEN Date(dt.y, dt.m, dt.d + 1)
    ELSE IF dt.m < 12 THEN Date(dt.y, dt.m + 1, 1)
    ELSE Date(dt.y + 1, 1, 1)

\* ----------------------------------------------------------------- strings
\* A string is a sequence of one-character strings.

Digits == {"0", "1", "2", "3", "4", "5", "6", "7", "8", "9"}

DigitVal(c) ==
    CASE c = "0" -> 0 [] c = "1" -> 1 [] c = "2" -> 2 [] c = "3" -> 3
      [] c = "4" -> 4 [] c = "5" -> 5 [] c = "6" -> 6 [] c = "7" -> 7
      [] c = "8" -> 8 [] c = "9" -> 9

DigitChar(n) ==
    CASE n = 0 -> "0" [] n = 1 -> "1" [] n = 2 -> "2" [] n = 3 -> "3"
      [] n = 4 -> "4" [] n = 5 -> "5" [] n = 6 -> "6" [] n = 7 -> "7"
      [] n = 8 -> "8" [] n = 9 -> "9"

AllDigits(s) == \A i \in 1..Len(s) : s[i] \in Digits

RECURSIVE Num(_)
Num(s) == IF s = <<>> THEN 0
          ELSE 10 * Num(SubSeq(s, 1, Len(s) - 1)) + DigitVal(s[Len(s)])

\* The positions of the '-' characters of s, in order.
RECURSIVE DashesFrom(_, _)
DashesFrom(s, i) ==
    IF i > Len(s) THEN <<>>
    ELSE IF s[i] = "-" THEN <<i>> \o DashesFrom(s, i + 1)
    ELSE DashesFrom(s, i + 1)

\* The text a YAML author writes for a date: zero-padded YYYY-MM-DD.
TwoDigits(n) == <<DigitChar(n \div 10), DigitChar(n % 10)>>
IsoString(y, m, d) ==
    <<DigitChar(y \div 1000), DigitChar((y \div 100) % 10),
      DigitChar((y \div 10) % 10), DigitChar(y % 10)>>
    \o <<"-">> \o TwoDigits(m) \o <<"-">> \o TwoDigits(d)

\* ------------------------------------------------------------------- names
\* File and header names are atoms; what the code does to their text is
\* tabulated here.

SpineNames == <<"work", "go-melt", "run", "log", "day", "end">>
SideName == "x_y"
HeaderOnlyName == "todo"
PdataName == "p"

\* name.replace('-', ' ').title()
DisplayName(n) ==
    CASE n = "work" -> "Work" [] n = "go-melt" -> "Go Melt" [] n = "run" -> "Run"
      [] n = "log" -> "Log" [] n = "day" -> "Day" [] n = "end" -> "End"
      [] n = "x_y" -> "X_Y" [] n = "todo" -> "Todo" [] n = "p" -> "P"
      [] n = "data" -> "Data" [] n = "main" -> "Main" [] n = "x" -> "X"
      [] n = "y" -> "Y" [] n = "nosuch" -> "Nosuch"
      [] OTHER -> n

\* s.lower() of a display name
LowerName(s) ==
    CASE s = "Work" -> "work" [] s = "Go Melt" -> "go melt" [] s = "Run" -> "run"
      [] s = "Log" -> "log" [] s = "Day" -> "day" [] s = "End" -> "end"
      [] s = "X_Y" -> "x_y" [] s = "Todo" -> "todo" [] s = "P" -> "p"
      [] s = "Data" -> "data" [] s = "Main" -> "main" [] s = "X" -> "x"
      [] s = "Y" -> "y" [] s = "Nosuch" -> "nosuch"
      [] OTHER -> s

\* item_name.replace('-', ' ').lower()
NormalizedName(n) == IF n = "go-melt" THEN "go melt" ELSE n

\* The place of a name in Python's string order (sorted()).
Rank(n) ==
    CASE n = "data" -> 1 [] n = "day" -> 2 [] n = "end" -> 3 [] n = "go-melt" -> 4
      [] n = "log" -> 5 [] n = "main" -> 6 [] n = "nosuch" -> 7 [] n = "p" -> 8
      [] n = "run" -> 9 [] n = "todo" -> 10 [] n = "work" -> 11 [] n = "x" -> 12
      [] n = "x_y" -> 13 [] n = "y" -> 14
      [] OTHER -> 0

\* ------------------------------------------------------------- file system

SearchDirs == <<"data", "pdata">>

Path(r, p) == [root |-> r, parts |-> p]

Front(s) == SubSeq(s, 1, Len(s) - 1)
Last(s) == s[Len(s)]

\* A path as the code holds it: an .md file, a directory, or None.
Ref(kind, r, p) == [kind |-> kind, root |-> r, parts |-> p]
NoneRef == Ref("none", "", <<>>)
MdRef(r, p) == Ref("md", r, p)
DirRef(r, p) == Ref("dir", r, p)

NoCall == [op |-> "none", arg |-> NoneRef, exc |-> "none", result |-> <<>>]

\* What is at yaml_file_path. kind: "missing" (no file), "unparseable" (not
\* YAML), "null" (an empty document: safe_load gives None), "text" (a scalar),
\* "map" (a mapping). Of a mapping: whether it has the keys 'structure' and
\* 'metadata', whether the value of 'structure' is a mapping or null, the
\* items of the structure as key paths, and the items that have a 'children' key.
YamlDoc(kind, structure, metadata, items, withChildren) ==
    [kind |-> kind, structure |-> structure, metadata |-> metadata,
     items |-> items, withChildren |-> withChildren]

NoFile == YamlDoc("missing", "absent", FALSE, {}, {})

\* The processes that edit the YAML file
Procs == {1, 2}

NoOp == [kind |-> "none", id |-> "", parent |-> ""]

\* run.py not started
NoLauncher ==
    [pc |-> "none", command |-> "", yaml |-> FALSE, returncode |-> "none",
     port |-> 0, server |-> "none", browser |-> 0]

\* No generation pass under way
NoPass == [pc |-> "idle", pending |-> {}]

\* A process that has no edit call under way
Idle ==
    [pc |-> "idle", op |-> NoOp, snapshot |-> NoFile, doc |-> NoFile,
     result |-> "nothing", exc |-> "none"]

NoEditors == [p \in Procs |-> Idle]

\* os.path.isdir
IsDir(r, p) == IF p = <<>> THEN r \in roots ELSE Path(r, p) \in dirs

IsMdFile(r, p) == Path(r, p) \in mdFiles

\* os.path.exists
Exists(ref) ==
    CASE ref.kind = "md" -> IsMdFile(ref.root, ref.parts)
      [] ref.kind = "dir" -> IsDir(ref.root, ref.parts)
      [] OTHER -> FALSE

\* os.listdir: the names X of the X.md files, and the names of the directories
MdNamesIn(r, p) ==
    {Last(f.parts) : f \in {g \in mdFiles :
        g.root = r /\ Len(g.parts) = Len(p) + 1 /\ Front(g.parts) = p}}

DirNamesIn(r, p) ==
    {Last(f.parts) : f \in {g \in dirs :
        g.root = r /\ Len(g.parts) = Len(p) + 1 /\ Front(g.parts) = p}}

\* sorted(): insertion into a sorted sequence, duplicates kept
RECURSIVE InsertSorted(_, _)
InsertSorted(n, s) ==
    IF s = <<>> THEN <<n>>
    ELSE IF Rank(n) <= Rank(s[1]) THEN <<n>> \o s
    ELSE <<s[1]>> \o InsertSorted(n, Tail(s))

RECURSIVE Sorted(_)
Sorted(s) == IF s = <<>> THEN <<>> ELSE InsertSorted(s[1], Sorted(Tail(s)))

RECURSIVE SetToSeq(_)
SetToSeq(S) ==
    IF S = {} THEN <<>>
    ELSE LET x == CHOOSE y \in S : \A z \in S : Rank(y) <= Rank(z)
         IN  <<x>> \o SetToSeq(S \ {x})

SeqToSet(s) == {s[i] : i \in 1..Len(s)}

\* ------------------------------------------------------ markdown contents
\* A line of an .md file, stripped: `hashes` '#' characters, a space or none,
\* then text. Zero hashes: a line of prose.

Line(hashes, space, text) == [hashes |-> hashes, space |-> space, text |-> text]

\* HierarchyBuilder._extract_headers_from_md: the lines that start with '#'
\* and whose second character is no space; the name is what follows the first '#'.
IsHeaderLine(l) == l.hashes >= 1 /\ ~(l.hashes = 1 /\ l.space)

HeaderName(l) ==
    IF l.hashes = 1 THEN l.text
    ELSE IF l.space THEN "# " \o l.text ELSE "#" \o l.text

RECURSIVE HeadersOf(_)
HeadersOf(lines) ==
    IF lines = <<>> THEN <<>>
    ELSE IF IsHeaderLine(lines[1]) THEN <<HeaderName(lines[1])>> \o HeadersOf(Tail(lines))
    ELSE HeadersOf(Tail(lines))

ExtractHeadersFromMd(ref) ==
    IF ref.kind = "md" /\ IsMdFile(ref.root, ref.parts)
    THEN HeadersOf(content[Path(ref.root, ref.parts)])
    ELSE <<>>

\* -------------------------------------------------------------- discovery

FilesUnder(r) == {f \in mdFiles : f.root = r}

\* (mutant) only the first search directory is walked
GetMarkdownFilesFirstRootOnly ==
    IF SearchDirs[1] \in roots THEN FilesUnder(SearchDirs[1]) ELSE {}

\* get_markdown_files_from_directories: os.walk over every search directory
\* that exists; a directory that does not exist is skipped.
GetMarkdownFilesFromDirectories ==
    UNION {FilesUnder(SearchDirs[i]) :
             i \in {j \in 1..Len(SearchDirs) : SearchDirs[j] \in roots}}

\* FileUtils.get_path_components_from_file_path: the path below the search
\* root, without the .md extension, split at the separators.
GetPathComponents(ref) ==
    IF ref.root \in SeqToSet(SearchDirs) THEN ref.parts ELSE <<>>

\* ------------------------------------------------------- file hierarchy
\* HierarchyBuilder.build_hierarchy_from_files: one entry per .md file, keyed
\* by its path components; _establish_parent_child_relationships links an
\* entry to the entry of its parent directory's .md file, when there is one.

HierarchyKeys == {GetPathComponents(MdRef(f.root, f.parts)) : f \in GetMarkdownFilesFromDirectories}

\* The entry of a key is overwritten by every later file of the same key: the
\* file of the last search directory that has one stays.
HierarchyFile(key) ==
    LET has == {j \in 1..Len(SearchDirs) :
                  Path(SearchDirs[j], key) \in GetMarkdownFilesFromDirectories}
        i == CHOOSE j \in has : \A k \in has : k <= j
    IN  MdRef(SearchDirs[i], key)

HierarchyChildren(key) ==
    {k \in HierarchyKeys : Len(k) > 1 /\ Front(k) = key}
    \cup (IF key = <<"data">>
          THEN {k \in HierarchyKeys : Len(k) = 1 /\ k # <<"data">>}
          ELSE {})

\* HierarchyBuilder._find_matching_child_file
FindMatchingChildFile(item_name, parent_hierarchy_key) ==
    IF parent_hierarchy_key \notin HierarchyKeys THEN NoneRef
    ELSE LET hits == {k \in HierarchyChildren(parent_hierarchy_key) :
                        LowerName(DisplayName(Last(k))) = NormalizedName(item_name)}
         IN  IF hits = {} THEN NoneRef
             ELSE HierarchyFile(CHOOSE k \in hits : \A j \in hits : Rank(Last(k)) <= Rank(Last(j)))

\* HierarchyBuilder._find_data_root_child_file: ../data/X.md, else ../data/X/X.md
FindDataRootChildFile(item_name) ==
    IF IsMdFile("data", <<item_name>>) THEN MdRef("data", <<item_name>>)
    ELSE IF IsDir("data", <<item_name>>) /\ IsMdFile("data", <<item_name, item_name>>)
         THEN MdRef("data", <<item_name, item_name>>)
    ELSE NoneRef

\* HierarchyBuilder._find_level2_file_direct
FindLevel2FileDirect(level1_file, level2_name) ==
    LET r == level1_file.root
        sub == level1_file.parts
    IN  IF ~IsDir(r, sub) THEN NoneRef
        ELSE IF IsMdFile(r, Append(sub, level2_name)) THEN MdRef(r, Append(sub, level2_name))
        ELSE IF IsDir(r, Append(sub, level2_name))
                /\ IsMdFile(r, sub \o <<level2_name, level2_name>>)
             THEN MdRef(r, sub \o <<level2_name, level2_name>>)
        ELSE NoneRef

\* HierarchyBuilder._find_level3_file_direct
FindLevel3FileDirect(level2_file, level3_name) ==
    LET r == level2_file.root
        sub == level2_file.parts
        inDir ==
            IF ~IsDir(r, sub) THEN NoneRef
            ELSE IF IsMdFile(r, Append(sub, level3_name))
                 THEN MdRef(r, Append(sub, level3_name))
            ELSE IF IsDir(r, Append(sub, level3_name))
                 THEN IF IsMdFile(r, sub \o <<level3_name, level3_name>>)
                      THEN MdRef(r, sub \o <<level3_name, level3_name>>)
                      ELSE DirRef(r, Append(sub, level3_name))
            ELSE NoneRef
    IN  IF inDir # NoneRef THEN inDir
        ELSE IF Exists(level2_file)
                /\ level3_name \in SeqToSet(ExtractHeadersFromMd(level2_file))
             THEN level2_file
        ELSE NoneRef

\* (mutant) the .md names, then the directory names, as they were found
ScanDirectoryAsFound(r, p) ==
    IF IsDir(r, p) THEN SetToSeq(MdNamesIn(r, p)) \o SetToSeq(DirNamesIn(r, p)) ELSE <<>>

\* HierarchyBuilder._scan_directory: the .md names, then the directories that
\* have no .md of their name, sorted.
ScanDirectory(r, p) ==
    IF IsDir(r, p) THEN SetToSeq(MdNamesIn(r, p) \cup DirNamesIn(r, p)) ELSE <<>>

\* HierarchyBuilder._get_subitems_from_filesystem: the headers of the file,
\* then the .md names and the directory names of the directory named after
\* it that were not found yet, sorted.
GetSubitemsFromFilesystem(filepath) ==
    LET r == filepath.root
        base_name == IF filepath.parts = <<>> THEN "" ELSE Last(filepath.parts)
        isData == base_name = "data"
        scan == IF isData THEN Front(filepath.parts) ELSE filepath.parts
        headers == IF isData THEN <<>> ELSE ExtractHeadersFromMd(filepath)
        found == SeqToSet(headers)
        mds == IF IsDir(r, scan)
               THEN (MdNamesIn(r, scan) \ (IF isData THEN {"data"} ELSE {})) \ found
               ELSE {}
        ds == IF IsDir(r, scan) THEN (DirNamesIn(r, scan) \ found) \ mds ELSE {}
    IN  Sorted(headers \o SetToSeq(mds) \o SetToSeq(ds))

\* HierarchyBuilder._get_hierarchy_key_from_file
GetHierarchyKeyFromFile(ref) == GetPathComponents(ref)

RECURSIVE MapLevel3(_, _, _)
MapLevel3(names, level2_file, key) ==
    IF names = <<>> THEN <<>>
    ELSE LET m == FindMatchingChildFile(names[1], key)
             f == IF m # NoneRef THEN m ELSE FindLevel3FileDirect(level2_file, names[1])
         IN  <<[name |-> names[1], filename |-> f]>>
             \o MapLevel3(Tail(names), level2_file, key)

\* HierarchyBuilder._process_level3_items
ProcessLevel3Items(level2_file) ==
    MapLevel3(GetSubitemsFromFilesystem(level2_file), level2_file,
              GetHierarchyKeyFromFile(level2_file))

RECURSIVE MapLevel2(_, _, _)
MapLevel2(names, level1_file, key) ==
    IF names = <<>> THEN <<>>
    ELSE LET m == FindMatchingChildFile(names[1], key)
             f == IF m # NoneRef THEN m ELSE FindLevel2FileDirect(level1_file, names[1])
             l3 == IF f # NoneRef /\ Exists(f) THEN ProcessLevel3Items(f) ELSE <<>>
         IN  <<[name |-> names[1], filename |-> f, layer3 |-> l3]>>
             \o MapLevel2(Tail(names), level1_file, key)

\* HierarchyBuilder._process_level2_items
ProcessLevel2Items(level1_file) ==
    MapLevel2(GetSubitemsFromFilesystem(level1_file), level1_file,
              GetHierarchyKeyFromFile(level1_file))

\* HierarchyBuilder._process_level1_item
ProcessLevel1Item(level1_name, hierarchy_key) ==
    LET f == IF hierarchy_key = <<"data">> THEN FindDataRootChildFile(level1_name)
             ELSE FindMatchingChildFile(level1_name, hierarchy_key)
        l2 == IF f # NoneRef /\ Exists(f) THEN ProcessLevel2Items(f) ELSE <<>>
    IN  [layer1 |-> level1_name, layer1_filename |-> f, layer2 |-> l2]

\* HierarchyBuilder.parse_md_hierarchy: a directory is scanned as the data
\* root; a file path is resolved through its headers and its own directory.
ParseMdHierarchy(filepath) ==
    LET isdir == filepath.kind = "dir" /\ IsDir(filepath.root, filepath.parts)
        hierarchy_key == IF isdir THEN <<"data">> ELSE GetPathComponents(filepath)
        level1_items == IF isdir THEN ScanDirectory(filepath.root, filepath.parts)
                        ELSE GetSubitemsFromFilesystem(filepath)
    IN  [i \in 1..Len(level1_items) |-> ProcessLevel1Item(level1_items[i], hierarchy_key)]

\* ------------------------------------------------------------ breadcrumbs
\* A breadcrumb entry: a display name and the page it links to (the path of
\* the page without ".html"; <<>> for None).

Crumb(name, file) == [name |-> name, file |-> file]
NoLink == <<>>

RECURSIVE AncestorCrumbs(_, _)
AncestorCrumbs(path_parts, i) ==
    IF i >= Len(path_parts) THEN <<>>
    ELSE <<Crumb(DisplayName(path_parts[i]), SubSeq(path_parts, 1, i))>>
         \o AncestorCrumbs(path_parts, i + 1)

\* (mutant) nothing is shown for the top-level view
GetBreadcrumbForFileEmptyRoot(file_path) ==
    LET path_parts == GetPathComponents(file_path)
    IN  IF path_parts = <<>> THEN <<>>
        ELSE <<Crumb("Data", <<"data">>)>> \o AncestorCrumbs(path_parts, 1)

\* HierarchyBuilder.get_breadcrumb_for_file
GetBreadcrumbForFile(file_path) ==
    LET path_parts == GetPathComponents(file_path)
    IN  IF path_parts = <<>> THEN <<Crumb("Data", <<"data">>)>>
        ELSE <<Crumb("Data", <<"data">>)>> \o AncestorCrumbs(path_parts, 1)

\* current.split('_') and '_'.join(parts) on the names of the model
SplitUnderscore(n) == IF n = "x_y" THEN <<"x", "y">> ELSE <<n>>
JoinUnderscore(parts) == IF parts = <<"x", "y">> THEN "x_y" ELSE parts[1]

\* The walk up the underscores of get_parent_file_info_dynamic, lines 709-720:
\* the entries from the file itself up to Main.
RECURSIVE WalkUp(_)
WalkUp(current) ==
    IF current = "" \/ current = "main" THEN <<>>
    ELSE LET parts == SplitUnderscore(current)
             here == Crumb(DisplayName(Last(parts)), <<current>>)
         IN  IF Len(parts) = 1 THEN <<here, Crumb("Main", <<"main">>)>>
             ELSE <<here>> \o WalkUp(JoinUnderscore(Front(parts)))

Reverse(s) == [i \in 1..Len(s) |-> s[Len(s) + 1 - i]]

\* get_parent_file_info_dynamic(file_name), file_name the base name X of X.md
GetParentFileInfoDynamic(base_name) ==
    IF base_name = "main" THEN <<Crumb("Main", NoLink)>>
    ELSE LET hierarchy_path == Reverse(WalkUp(base_name))
         IN  IF hierarchy_path = <<>>
             THEN <<Crumb("Main", <<"main">>), Crumb(DisplayName(base_name), NoLink)>>
             ELSE [i \in 1..Len(hierarchy_path) |->
                     IF i = Len(hierarchy_path)
                     THEN Crumb(hierarchy_path[i].name, NoLink)
                     ELSE hierarchy_path[i]]

\* read_layers_from_md of src/src/graph.py, its level-1 items: the text of
\* the lines that start with exactly one '#'.
RECURSIVE Level1Layers(_)
Level1Layers(lines) ==
    IF lines = <<>> THEN <<>>
    ELSE IF lines[1].hashes = 1 THEN <<lines[1].text>> \o Level1Layers(Tail(lines))
    ELSE Level1Layers(Tail(lines))

\* --------------------------------------------- src/src/graph.py, the parse
\* build_hierarchy_from_files of src/src/graph.py: as above, with the
\* top-level files under the entry of main.md.
LegacyChildren(key) ==
    {k \in HierarchyKeys : Len(k) > 1 /\ Front(k) = key}
    \cup (IF key = <<"main">>
          THEN {k \in HierarchyKeys : Len(k) = 1 /\ k # <<"main">>}
          ELSE {})

\* Lines 199-204, 224-230, 251-257: the file of the child whose display name
\* matches the header text.
LegacyChildFile(item_name, parent_key) ==
    IF parent_key \notin HierarchyKeys THEN NoneRef
    ELSE LET hits == {k \in LegacyChildren(parent_key) :
                        LowerName(DisplayName(Last(k))) = NormalizedName(item_name)}
         IN  IF hits = {} THEN NoneRef
             ELSE HierarchyFile(CHOOSE k \in hits : \A j \in hits : Rank(Last(k)) <= Rank(Last(j)))

LegacyLayers(ref) == Level1Layers(content[Path(ref.root, ref.parts)])

LegacyLevel3(level2_file) ==
    LET names == LegacyLayers(level2_file)
    IN  [i \in 1..Len(names) |->
           [name |-> names[i], filename |-> LegacyChildFile(names[i], level2_file.parts)]]

LegacyLevel2(level1_file) ==
    LET names == LegacyLayers(level1_file)
    IN  [i \in 1..Len(names) |->
           LET f == LegacyChildFile(names[i], level1_file.parts)
           IN  [name |-> names[i], filename |-> f,
                layer3 |-> IF f # NoneRef /\ Exists(f) THEN LegacyLevel3(f) ELSE <<>>]]

\* A line of bytes that are not UTF-8: reading it raises UnicodeDecodeError
BadLine == Line(0, FALSE, "<not UTF-8>")

Undecodable(ref) ==
    \E i \in 1..Len(content[Path(ref.root, ref.parts)]) :
        content[Path(ref.root, ref.parts)][i] = BadLine

\* The files parse_md_hierarchy reads with read_layers_from_md after the
\* file it is given: the files of its level-1 and level-2 items that exist
\* (lines 207-208 and 233-234)
LegacyFilesRead(data) ==
    LET l1 == {data[i].layer1_filename : i \in 1..Len(data)}
        l2 == UNION {{data[i].layer2[j].filename : j \in 1..Len(data[i].layer2)} :
                        i \in 1..Len(data)}
    IN  {f \in l1 \cup l2 : f # NoneRef /\ Exists(f)}

\* parse_md_hierarchy of src/src/graph.py: read_layers_from_md opens the file
\* first, and open() raises when there is no such file; reading a file that
\* is not UTF-8 raises as well, in the file itself or in a child's file.
LegacyParseMdHierarchy(filepath) ==
    IF ~(filepath.kind = "md" /\ Exists(filepath))
    THEN [exc |-> IF filepath.kind = "dir" /\ Exists(filepath)
                  THEN "IsADirectoryError" ELSE "FileNotFoundError",
          data |-> <<>>]
    ELSE LET names == LegacyLayers(filepath)
             data == [i \in 1..Len(names) |->
                 LET f == LegacyChildFile(names[i], filepath.parts)
                 IN  [layer1 |-> names[i], layer1_filename |-> f,
                      layer2 |-> IF f # NoneRef /\ Exists(f) THEN LegacyLevel2(f) ELSE <<>>]]
         IN  IF Undecodable(filepath) \/ \E f \in LegacyFilesRead(data) : Undecodable(f)
             THEN [exc |-> "UnicodeDecodeError", data |-> <<>>]
             ELSE [exc |-> "none", data |-> data]

\* ----------------------------------------- src/src/graph.py, the rendering
\* check_file_exists(file_path): the paths of a projection hold '../' and
\* are looked up as they are.
CheckFileExists(file_path) == file_path # NoneRef /\ Exists(file_path)

\* get_file_association_dynamic(layer1_name, layer2_name, current_file): the
\* file of the child of the entry named as the current file's base name whose
\* display name is the item's name, both in lower case.
GetFileAssociationDynamic(layer2_name, base_name) ==
    LET hits == {k \in LegacyChildren(<<base_name>>) :
                    LowerName(DisplayName(Last(k))) = LowerName(layer2_name)}
    IN  IF <<base_name>> \notin HierarchyKeys \/ hits = {} THEN NoneRef
        ELSE HierarchyFile(CHOOSE k \in hits : \A j \in hits : Rank(Last(k)) <= Rank(Last(j)))

\* An item of a page: its name, the file its onclick leads to, and whether
\* it has the class "clickable"
Rendered(name, file, items) ==
    [name |-> name, file |-> file, clickable |-> CheckFileExists(file), items |-> items]

\* generate_html_graph, lines 583-642: the items of the page of `data`
RenderLayer3(layer3) ==
    [i \in 1..Len(layer3) |-> Rendered(layer3[i].name, layer3[i].filename, <<>>)]

RenderLayer2(layer2, base_name) ==
    [i \in 1..Len(layer2) |->
        Rendered(layer2[i].name,
                 IF layer2[i].filename # NoneRef THEN layer2[i].filename
                 ELSE GetFileAssociationDynamic(layer2[i].name, base_name),
                 RenderLayer3(layer2[i].layer3))]

GenerateHtmlGraph(data, base_name) ==
    [i \in 1..Len(data) |->
        Rendered(data[i].layer1, data[i].layer1_filename,
                 RenderLayer2(data[i].layer2, base_name))]

\* ------------------------------------------------------------ the tree on disk

Kinds == {"none", "md", "dir", "both"}

SpinePaths == {SubSeq(SpineNames, 1, k) : k \in 1..MaxDepth}
SidePath == <<SpineNames[1], SideName>>
CandPaths == SpinePaths \cup {SidePath}

ProperPrefixes(p) == {SubSeq(p, 1, k) : k \in 1..(Len(p) - 1)}

\* What can be on disk: an entry below a directory needs that directory.
Shapes ==
    {sh \in [CandPaths -> Kinds] :
        /\ sh[SidePath] \in {"none", "md"}
        /\ \A p \in CandPaths :
              sh[p] # "none" => \A q \in ProperPrefixes(p) : sh[q] \in {"dir", "both"}}

\* The .md file that holds a header line, if any, and the header it holds.
HeaderFiles == {SubSeq(SpineNames, 1, k) : k \in 1..3}
HeaderTexts == {HeaderOnlyName, SpineNames[2], SpineNames[3]}

\* The trees on disk: entries under ../data, a file under ../pdata, and one
\* header line, written once or twice, in one of the files.
TreeOnDisk ==
    \E sh \in Shapes, hasData \in BOOLEAN, pdata \in {"absent", "empty", "file"} :
        LET dataMd == IF hasData
                      THEN {Path("data", p) : p \in {q \in CandPaths : sh[q] \in {"md", "both"}}}
                      ELSE {}
            dataDirs == IF hasData
                        THEN {Path("data", p) : p \in {q \in CandPaths : sh[q] \in {"dir", "both"}}}
                        ELSE {}
            files == dataMd \cup (IF pdata = "file" THEN {Path("pdata", <<PdataName>>)} ELSE {})
        IN  /\ (~hasData) => \A p \in CandPaths : sh[p] = "none"
            /\ roots = (IF hasData THEN {"data"} ELSE {})
                       \cup (IF pdata = "absent" THEN {} ELSE {"pdata"})
            /\ mdFiles = files
            /\ dirs = dataDirs
            /\ \E hf \in HeaderFiles \cup {<<>>}, ht \in HeaderTexts, twice \in BOOLEAN :
                 /\ (hf = <<>> \/ Path("data", hf) \notin files)
                       => (hf = <<>> /\ ht = HeaderOnlyName /\ ~twice)
                 /\ content = [f \in files |->
                                 IF f # Path("data", hf) THEN <<>>
                                 ELSE IF twice THEN <<Line(1, FALSE, ht), Line(1, FALSE, ht)>>
                                 ELSE <<Line(1, FALSE, ht)>>]

InitTree ==
    /\ today \in {Date(2024, 2, 27)}
    /\ ticks = 0
    /\ rendered = <<>>
    /\ passState = "running"
    /\ treeCall = NoCall
    /\ yamlFile = NoFile
    /\ yamlCall = NoCall
    /\ editors = NoEditors
    /\ saved = <<>>
    /\ html = <<>>
    /\ genPass = NoPass
    /\ launcher = NoLauncher
    /\ busy = {}
    /\ TreeOnDisk

\* The paths the tree code is asked about.
MdArgs == {MdRef("data", p) : p \in CandPaths \cup {<<"nosuch">>}}
          \cup {MdRef("pdata", <<PdataName>>)}
DirArgs == {DirRef("data", <<>>), DirRef("pdata", <<>>)}
           \cup {DirRef("data", p) : p \in SpinePaths}

Call(op, arg, exc, result) == [op |-> op, arg |-> arg, exc |-> exc, result |-> result]

\* HierarchyBuilder.parse_md_hierarchy(filepath)
ParseHierarchy(filepath) ==
    /\ treeCall.op = "none"
    /\ filepath.kind = "dir" => Exists(filepath) \/ filepath.parts = <<>>
    /\ treeCall' = Call("HierarchyBuilder.parse_md_hierarchy", filepath, "none",
                        ParseMdHierarchy(filepath))
    /\ UNCHANGED fsVars
    /\ UNCHANGED dueVars
    /\ UNCHANGED yamlVars
    /\ UNCHANGED editVars
    /\ UNCHANGED genVars
    /\ UNCHANGED runVars

\* parse_md_hierarchy(filepath) of src/src/graph.py
LegacyParse(filepath) ==
    /\ treeCall.op = "none"
    /\ filepath.kind = "md"
    /\ LET r == LegacyParseMdHierarchy(filepath)
       IN  treeCall' = Call("graph.parse_md_hierarchy", filepath, r.exc, r.data)
    /\ UNCHANGED fsVars
    /\ UNCHANGED dueVars
    /\ UNCHANGED yamlVars
    /\ UNCHANGED editVars
    /\ UNCHANGED genVars
    /\ UNCHANGED runVars

\* HierarchyBuilder._scan_directory(dir_path)
ScanDir(dir_path) ==
    /\ treeCall.op = "none"
    /\ treeCall' = Call("_scan_directory", dir_path, "none",
                        ScanDirectory(dir_path.root, dir_path.parts))
    /\ UNCHANGED fsVars
    /\ UNCHANGED dueVars
    /\ UNCHANGED yamlVars
    /\ UNCHANGED editVars
    /\ UNCHANGED genVars
    /\ UNCHANGED runVars

\* HierarchyBuilder._get_subitems_from_filesystem(filepath)
Subitems(filepath) ==
    /\ treeCall.op = "none"
    /\ treeCall' = Call("_get_subitems_from_filesystem", filepath, "none",
                        GetSubitemsFromFilesystem(filepath))
    /\ UNCHANGED fsVars
    /\ UNCHANGED dueVars
    /\ UNCHANGED yamlVars
    /\ UNCHANGED editVars
    /\ UNCHANGED genVars
    /\ UNCHANGED runVars

\* HierarchyBuilder.get_breadcrumb_for_file(file_path)
Breadcrumb(file_path) ==
    /\ treeCall.op = "none"
    /\ file_path.kind = "dir" => Exists(file_path)
    /\ treeCall' = Call("get_breadcrumb_for_file", file_path, "none",
                        GetBreadcrumbForFile(file_path))
    /\ UNCHANGED fsVars
    /\ UNCHANGED dueVars
    /\ UNCHANGED yamlVars
    /\ UNCHANGED editVars
    /\ UNCHANGED genVars
    /\ UNCHANGED runVars

\* One turn of the loop of generate_all_subgraphs (src/src/graph.py): a page is
\* made for a discovered file other than main.md that has level-1 content, with
\* the breadcrumb of the file's base name.
SubgraphBreadcrumb(f) ==
    /\ treeCall.op = "none"
    /\ f \in GetMarkdownFilesFromDirectories
    /\ Last(f.parts) # "main"
    /\ Level1Layers(content[f]) # <<>>
    /\ treeCall' = Call("get_parent_file_info_dynamic", MdRef(f.root, f.parts), "none",
                        GetParentFileInfoDynamic(Last(f.parts)))
    /\ UNCHANGED fsVars
    /\ UNCHANGED dueVars
    /\ UNCHANGED yamlVars
    /\ UNCHANGED editVars
    /\ UNCHANGED genVars
    /\ UNCHANGED runVars

\* The breadcrumb of the top-level page main.md
MainBreadcrumb ==
    /\ treeCall.op = "none"
    /\ treeCall' = Call("get_parent_file_info_dynamic", MdRef("data", <<"main">>), "none",
                        GetParentFileInfoDynamic("main"))
    /\ UNCHANGED fsVars
    /\ UNCHANGED dueVars
    /\ UNCHANGED yamlVars
    /\ UNCHANGED editVars
    /\ UNCHANGED genVars
    /\ UNCHANGED runVars

\* get_markdown_files_from_directories()
Discover ==
    /\ treeCall.op = "none"
    /\ treeCall' = Call("get_markdown_files_from_directories", NoneRef, "none",
                        GetMarkdownFilesFromDirectories)
    /\ UNCHANGED fsVars
    /\ UNCHANGED dueVars
    /\ UNCHANGED yamlVars
    /\ UNCHANGED editVars
    /\ UNCHANGED genVars
    /\ UNCHANGED runVars

\* The caller takes the result; the next call can start.
Return ==
    /\ treeCall.op # "none"
    /\ treeCall' = NoCall
    /\ UNCHANGED fsVars
    /\ UNCHANGED dueVars
    /\ UNCHANGED yamlVars
    /\ UNCHANGED editVars
    /\ UNCHANGED genVars
    /\ UNCHANGED runVars

NextTree ==
    \/ \E a \in MdArgs \cup DirArgs : ParseHierarchy(a)
    \/ \E a \in MdArgs : LegacyParse(a)
    \/ \E a \in DirArgs : ScanDir(a)
    \/ \E a \in MdArgs : Subitems(a)
    \/ \E a \in MdArgs \cup DirArgs : Breadcrumb(a)
    \/ \E f \in mdFiles : SubgraphBreadcrumb(f)
    \/ MainBreadcrumb
    \/ Discover
    \/ Return

SpecTree == InitTree /\ [][NextTree]_vars

\* ------------------------------------------------------------- due values
\* What a node's 'due' field can hold after yaml.safe_load: nothing, a string,
\* a date (YAML converts an ISO date), a datetime (an ISO timestamp), a number.

NoDate == Date(0, 0, 0)

NoneValue == [type |-> "none", chars |-> <<>>, dt |-> NoDate, n |-> 0]
StrValue(s) == [type |-> "str", chars |-> s, dt |-> NoDate, n |-> 0]
DateValue(dt) == [type |-> "date", chars |-> <<>>, dt |-> dt, n |-> 0]
DatetimeValue(dt) == [type |-> "datetime", chars |-> <<>>, dt |-> dt, n |-> 0]
IntValue(n) == [type |-> "int", chars |-> <<>>, dt |-> NoDate, n |-> n]

\* Python truthiness of a due value ("if not due_date_value").
Truthy(v) ==
    CASE v.type = "none" -> FALSE
      [] v.type = "str" -> v.chars # <<>>
      [] v.type = "int" -> v.n # 0
      [] OTHER -> TRUE

\* The outcome of an expression: a value, or the exception it raised.
Ok(x) == [exc |-> "none", val |-> x]
Raise(e) == [exc |-> e, val |-> NoDate]

\* datetime.strptime(s, '%Y-%m-%d').date(): four digits, '-', a month of one or
\* two digits, '-', a day of one or two digits, nothing else; then the date
\* must exist. Anything else raises ValueError.
Strptime(s) ==
    LET dashes == DashesFrom(s, 1)
        ok == /\ Len(dashes) = 2
              /\ dashes[1] = 5
              /\ dashes[2] - dashes[1] \in {2, 3}
              /\ Len(s) - dashes[2] \in {1, 2}
        ys == SubSeq(s, 1, 4)
        ms == SubSeq(s, 6, dashes[2] - 1)
        ds == SubSeq(s, dashes[2] + 1, Len(s))
    IN  IF ~ok THEN Raise("ValueError")
        ELSE IF ~(AllDigits(ys) /\ AllDigits(ms) /\ AllDigits(ds))
             THEN Raise("ValueError")
        ELSE IF ~(Num(ms) \in 1..12 /\ Num(ds) \in 1..31) THEN Raise("ValueError")
        ELSE IF ~ValidDate(Num(ys), Num(ms), Num(ds)) THEN Raise("ValueError")
        ELSE Ok(Date(Num(ys), Num(ms), Num(ds)))

\* Lines 77-81: a string is parsed, anything else is taken to be a date.
ParseDue(v) ==
    IF v.type = "str"
    THEN LET r == Strptime(v.chars)
         IN  IF r.exc = "none" THEN Ok(DateValue(r.val)) ELSE r
    ELSE Ok(v)

\* Line 84: (due_date - today).days. Only date - date is defined; a datetime,
\* a number or any other object on the left raises TypeError.
DaysUntil(due, now) ==
    IF due.type = "date" THEN Ok(Ordinal(due.dt) - Ordinal(now))
    ELSE Raise("TypeError")

\* Lines 87-98: the if / elif / elif / else chain, as its conditions are written.
DueBranches == <<"due-overdue", "due-today", "due-soon", "due-later">>

\* (mutant) the week ends a day late: days_until <= 7
BranchGuardLateWeek(i, days_until) ==
    CASE i = 1 -> days_until < 0
      [] i = 2 -> days_until = 0
      [] i = 3 -> days_until <= 7
      [] i = 4 -> TRUE

\* (mutant) a cutoff on the last branch: nothing is shown past 30 days
BranchGuardCutoff(i, days_until) ==
    CASE i = 1 -> days_until < 0
      [] i = 2 -> days_until = 0
      [] i = 3 -> days_until <= 6
      [] i = 4 -> days_until <= 30

BranchGuard(i, days_until) ==
    CASE i = 1 -> days_until < 0
      [] i = 2 -> days_until = 0
      [] i = 3 -> days_until <= 6
      [] i = 4 -> TRUE

\* (mutant) independent 'if' statements instead of an elif chain
BranchTakenIndependent(i, days_until) == BranchGuard(i, days_until)

\* elif: a branch runs when its condition holds and no earlier one did.
BranchTaken(i, days_until) ==
    /\ BranchGuard(i, days_until)
    /\ \A j \in 1..(i - 1) : ~BranchGuard(j, days_until)

CssClasses(days_until) ==
    {DueBranches[i] : i \in {j \in 1..Len(DueBranches) : BranchTaken(j, days_until)}}

Label(days_until, dt) ==
    IF days_until < 0 THEN [text |-> "OVERDUE", m |-> 0, n |-> 0]
    ELSE IF days_until = 0 THEN [text |-> "TODAY", m |-> 0, n |-> 0]
    ELSE IF days_until <= 6 THEN [text |-> "in {n}d", m |-> 0, n |-> days_until]
    ELSE [text |-> "%b %d", m |-> dt.m, n |-> dt.d]

\* The empty string _format_due_date returns when it has nothing to show.
EmptyHtml == [css |-> {}, label |-> [text |-> "", m |-> 0, n |-> 0]]

Span(css, label) == [css |-> css, label |-> label]

\* (mutant) only the parse error is caught
CaughtValueErrorOnly == {"ValueError"}

\* Line 101: except (ValueError, TypeError, AttributeError)
Caught == {"ValueError", "TypeError", "AttributeError"}

\* HTMLGenerator._format_due_date(due_date_value) when the clock reads `now`:
\* [exc, html], exc the exception that leaves the function ("none": it returned).
FormatDueDate(due_date_value, now) ==
    IF ~Truthy(due_date_value) THEN [exc |-> "none", html |-> EmptyHtml]
    ELSE
      LET parsed == ParseDue(due_date_value)
          days == IF parsed.exc = "none" THEN DaysUntil(parsed.val, now) ELSE parsed
          body == IF days.exc # "none" THEN days.exc ELSE "none"
      IN  IF body = "none"
          THEN [exc |-> "none",
                html |-> Span(CssClasses(days.val), Label(days.val, parsed.val.dt))]
          ELSE IF body \in Caught THEN [exc |-> "none", html |-> EmptyHtml]
          ELSE [exc |-> body, html |-> EmptyHtml]

\* The due values the rendered nodes carry.
DueDates ==
    {Date(2024, 2, 26), Date(2024, 2, 27), Date(2024, 3, 4), Date(2024, 3, 5),
     Date(2024, 3, 28), Date(2024, 3, 29), Date(2025, 1, 1)}

MalformedStrings ==
    {<<"s", "o", "o", "n">>,
     <<"2", "0", "2", "4", "-", "0", "2", "-", "3", "0">>,
     <<"2", "0", "2", "4", "-", "1", "3", "-", "0", "1">>,
     <<"2", "0", "2", "4", "/", "0", "3", "/", "0", "5">>}

DueValues ==
    {StrValue(IsoString(dt.y, dt.m, dt.d)) : dt \in DueDates}
    \cup {DateValue(dt) : dt \in DueDates}
    \cup {StrValue(s) : s \in MalformedStrings}
    \cup {StrValue(<<"2", "0", "2", "4", "-", "3", "-", "5">>), StrValue(<<>>),
          NoneValue, IntValue(0), IntValue(5), DatetimeValue(Date(2024, 3, 5))}

Todays == {Date(2024, 2, 27), Date(2024, 12, 31)}

\* ------------------------------------------------------------ the due pass

InitDue ==
    /\ today \in Todays
    /\ ticks = 0
    /\ rendered = <<>>
    /\ passState = "running"
    /\ roots = {}
    /\ mdFiles = {}
    /\ dirs = {}
    /\ content = <<>>
    /\ treeCall = NoCall
    /\ yamlFile = NoFile
    /\ yamlCall = NoCall
    /\ editors = NoEditors
    /\ saved = <<>>
    /\ html = <<>>
    /\ genPass = NoPass
    /\ launcher = NoLauncher
    /\ busy = {}

\* One item of a page is built (_build_layer1_section, _build_layer2_section,
\* _build_layer3_item): its due value goes through _format_due_date, and an
\* exception leaving it ends the pass.
RenderItem(v) ==
    /\ passState = "running"
    /\ Len(rendered) < MaxNodes
    /\ LET r == IF Truthy(v) THEN FormatDueDate(v, today)
                ELSE [exc |-> "none", html |-> EmptyHtml]
       IN  IF r.exc = "none"
           THEN /\ rendered' = Append(rendered, [due |-> v, now |-> today, html |-> r.html])
                /\ passState' = passState
           ELSE /\ passState' = "raised"
                /\ rendered' = rendered
    /\ UNCHANGED <<today, ticks>>
    /\ UNCHANGED treeVars
    /\ UNCHANGED yamlVars
    /\ UNCHANGED editVars
    /\ UNCHANGED genVars
    /\ UNCHANGED runVars

\* Midnight passes: datetime.now() is read anew by every call.
Midnight ==
    /\ passState = "running"
    /\ ticks < MaxTicks
    /\ today' = NextDay(today)
    /\ ticks' = ticks + 1
    /\ UNCHANGED <<rendered, passState>>
    /\ UNCHANGED treeVars
    /\ UNCHANGED yamlVars
    /\ UNCHANGED editVars
    /\ UNCHANGED genVars
    /\ UNCHANGED runVars

NextDue == (\E v \in DueValues : RenderItem(v)) \/ Midnight

SpecDue == InitDue /\ [][NextDue]_vars

\* ------------------------------------------- the YAML store (file_utils.py)

YamlKeys == {"home", "work"}

\* item_exists, get_item_by_id: ids of one, two or three parts are looked up
MaxIdParts == 3

KeyPaths(n) == UNION {[1..k -> YamlKeys] : k \in 1..n}

\* An item id: the keys of its path joined by '_'
RECURSIVE ItemId(_)
ItemId(parts) ==
    IF Len(parts) = 1 THEN parts[1] ELSE ItemId(Front(parts)) \o "_" \o Last(parts)

ItemIds == {ItemId(p) : p \in KeyPaths(MaxIdParts + 1)}

\* item_id.split('_')
SplitId(item_id) == CHOOSE p \in KeyPaths(MaxIdParts + 1) : ItemId(p) = item_id

\* Lines 24-30: open and yaml.safe_load; a missing file and a YAML syntax
\* error are raised again, anything that parses is returned as it is.
LoadYamlStructure ==
    CASE yamlFile.kind = "missing" -> Raise("FileNotFoundError")
      [] yamlFile.kind = "unparseable" -> Raise("ValueError")
      [] OTHER -> [exc |-> "none", val |-> yamlFile]

\* structure['structure']: the exception of the subscript, or "none"
StructureSubscript(structure) ==
    CASE structure.kind \in {"null", "text"} -> "TypeError"
      [] structure.structure = "absent" -> "KeyError"
      [] OTHER -> "none"

\* x in structure['structure'][...]: membership in the mapping under `parent`
HasKey(structure, parent, key) == Append(parent, key) \in structure.items

\* item_exists(item_id), lines 42-60
ItemExists(item_id) ==
    LET loaded == LoadYamlStructure
        structure == loaded.val
        id_parts == SplitId(item_id)
        sub == StructureSubscript(structure)
        body ==
          IF Len(id_parts) > MaxIdParts THEN Ok(FALSE)
          ELSE IF sub # "none" THEN Raise(sub)
          ELSE IF structure.structure = "null" THEN Raise("TypeError")
          ELSE Ok(\A i \in 1..Len(id_parts) :
                    HasKey(structure, SubSeq(id_parts, 1, i - 1), id_parts[i]))
    IN  IF loaded.exc # "none" THEN [exc |-> loaded.exc, result |-> "nothing"]
        ELSE IF body.exc \in {"KeyError", "TypeError"} THEN [exc |-> "none", result |-> FALSE]
        ELSE [exc |-> body.exc, result |-> body.val]

\* get_item_by_id(item_id), lines 62-77: the item, as its key path
GetItemById(item_id) ==
    LET loaded == LoadYamlStructure
        structure == loaded.val
        id_parts == SplitId(item_id)
        sub == StructureSubscript(structure)
        missing == {i \in 1..Len(id_parts) :
                      ~HasKey(structure, SubSeq(id_parts, 1, i - 1), id_parts[i])}
        body ==
          IF Len(id_parts) > MaxIdParts THEN Ok("None")
          ELSE IF sub # "none" THEN Raise(sub)
          ELSE IF structure.structure = "null" THEN Raise("TypeError")
          ELSE IF missing # {} THEN Raise("KeyError")
          ELSE Ok(id_parts)
    IN  IF loaded.exc # "none" THEN [exc |-> loaded.exc, result |-> "nothing"]
        ELSE IF body.exc = "KeyError" THEN [exc |-> "none", result |-> "None"]
        ELSE IF body.exc # "none" THEN [exc |-> body.exc, result |-> "nothing"]
        ELSE [exc |-> "none", result |-> body.val]

\* collect_items_recursive, lines 166-173: the items under `parent` in the
\* order of the document (here the order of the keys), each before its
\* children, with its level.
RECURSIVE CollectItemsRecursive(_, _, _)
CollectItemsRecursive(structure, parent, ks) ==
    IF ks = <<>> THEN <<>>
    ELSE LET path == Append(parent, ks[1])
             here == IF path \in structure.items
                     THEN <<[item |-> path, level |-> Len(path)]>>
                          \o (IF path \in structure.withChildren
                              THEN CollectItemsRecursive(structure, path, <<"home", "work">>)
                              ELSE <<>>)
                     ELSE <<>>
         IN  here \o CollectItemsRecursive(structure, parent, Tail(ks))

\* get_all_items(), lines 161-176
GetAllItems ==
    LET loaded == LoadYamlStructure
        structure == loaded.val
        sub == StructureSubscript(structure)
    IN  IF loaded.exc # "none" THEN [exc |-> loaded.exc, result |-> "nothing"]
        ELSE IF sub # "none" THEN [exc |-> sub, result |-> "nothing"]
        ELSE IF structure.structure = "null"
             THEN [exc |-> "AttributeError", result |-> "nothing"]
        ELSE [exc |-> "none",
              result |-> CollectItemsRecursive(structure, <<>>, <<"home", "work">>)]

\* The trees of a structure: sets of key paths closed under parents, of at
\* most MaxItems items.
Trees ==
    {t \in SUBSET KeyPaths(MaxIdParts) :
        /\ Cardinality(t) <= MaxItems
        /\ \A p \in t : Len(p) > 1 => Front(p) \in t}

HasChildren(t, p) == \E q \in t : Len(q) = Len(p) + 1 /\ Front(q) = p

\* The items of a tree that can have a 'children' key: those with children
\* have it, the others may have an empty one.
WithChildrenOf(t) == {v \in SUBSET t : \A p \in t : HasChildren(t, p) => p \in v}

\* A chain of items one level deeper than the lookups by id walk
DeepTree == {SubSeq(<<"home", "work", "home", "work">>, 1, k) : k \in 1..(MaxIdParts + 1)}

\* The documents at yaml_file_path
YamlDocs ==
    {NoFile,
     YamlDoc("map", "map", TRUE, DeepTree, {p \in DeepTree : Len(p) <= MaxIdParts}),
     YamlDoc("unparseable", "absent", FALSE, {}, {}),
     YamlDoc("null", "absent", FALSE, {}, {}),
     YamlDoc("text", "absent", FALSE, {}, {}),
     YamlDoc("map", "absent", FALSE, {}, {}),
     YamlDoc("map", "absent", TRUE, {}, {}),
     YamlDoc("map", "null", TRUE, {}, {})}
    \cup UNION {{YamlDoc("map", "map", m, t, w) :
                   m \in BOOLEAN, w \in WithChildrenOf(t)} : t \in Trees}

InitYaml ==
    /\ today \in {Date(2024, 2, 27)}
    /\ ticks = 0
    /\ rendered = <<>>
    /\ passState = "running"
    /\ roots = {}
    /\ mdFiles = {}
    /\ dirs = {}
    /\ content = <<>>
    /\ treeCall = NoCall
    /\ yamlFile \in YamlDocs
    /\ yamlCall = NoCall
    /\ editors = NoEditors
    /\ saved = <<>>
    /\ html = <<>>
    /\ genPass = NoPass
    /\ launcher = NoLauncher
    /\ busy = {}

\* load_yaml_structure()
CallLoad ==
    /\ yamlCall.op = "none"
    /\ LET r == LoadYamlStructure
       IN  yamlCall' = Call("load_yaml_structure", "", r.exc,
                            IF r.exc = "none" THEN r.val ELSE "nothing")
    /\ UNCHANGED yamlFile
    /\ UNCHANGED dueVars
    /\ UNCHANGED treeVars
    /\ UNCHANGED editVars
    /\ UNCHANGED genVars
    /\ UNCHANGED runVars

\* item_exists(item_id)
CallItemExists(item_id) ==
    /\ yamlCall.op = "none"
    /\ LET r == ItemExists(item_id)
       IN  yamlCall' = Call("item_exists", item_id, r.exc, r.result)
    /\ UNCHANGED yamlFile
    /\ UNCHANGED dueVars
    /\ UNCHANGED treeVars
    /\ UNCHANGED editVars
    /\ UNCHANGED genVars
    /\ UNCHANGED runVars

\* get_item_by_id(item_id)
CallGetItemById(item_id) ==
    /\ yamlCall.op = "none"
    /\ LET r == GetItemById(item_id)
       IN  yamlCall' = Call("get_item_by_id", item_id, r.exc, r.result)
    /\ UNCHANGED yamlFile
    /\ UNCHANGED dueVars
    /\ UNCHANGED treeVars
    /\ UNCHANGED editVars
    /\ UNCHANGED genVars
    /\ UNCHANGED runVars

\* get_all_items()
CallGetAllItems ==
    /\ yamlCall.op = "none"
    /\ LET r == GetAllItems
       IN  yamlCall' = Call("get_all_items", "", r.exc, r.result)
    /\ UNCHANGED yamlFile
    /\ UNCHANGED dueVars
    /\ UNCHANGED treeVars
    /\ UNCHANGED editVars
    /\ UNCHANGED genVars
    /\ UNCHANGED runVars

\* The caller takes the result; the next call can start.
YamlReturn ==
    /\ yamlCall.op # "none"
    /\ yamlCall' = NoCall
    /\ UNCHANGED yamlFile
    /\ UNCHANGED dueVars
    /\ UNCHANGED treeVars
    /\ UNCHANGED editVars
    /\ UNCHANGED genVars
    /\ UNCHANGED runVars

NextYaml ==
    \/ CallLoad
    \/ \E id \in ItemIds : CallItemExists(id)
    \/ \E id \in ItemIds : CallGetItemById(id)
    \/ CallGetAllItems
    \/ YamlReturn

SpecYaml == InitYaml /\ [][NextYaml]_vars

\* --------------------------------------- the YAML store: the edit calls

\* An item as the file holds it: its 'id' field, and whether its other fields
\* are those of the first document (rev 0) or those an edit call gave (rev 1).
ItemData(id, rev) == [id |-> id, rev |-> rev]

\* A document with the contents of its items
EditDoc(doc, data) ==
    [kind |-> doc.kind, structure |-> doc.structure, metadata |-> doc.metadata,
     items |-> doc.items, withChildren |-> doc.withChildren, data |-> data]

\* A document as its author wrote it: every item's id is its keys joined by '_'
Authored(doc) == EditDoc(doc, [p \in doc.items |-> ItemData(ItemId(p), 0)])

\* open(path, 'w') leaves an empty file
EmptyFile == Authored(YamlDoc("null", "absent", FALSE, {}, {}))

\* The bytes of two documents in one file
Garbled == Authored(YamlDoc("unparseable", "absent", FALSE, {}, {}))

Prefix(parts, i) == SubSeq(parts, 1, i)

IsPrefixOf(p, q) == Len(p) <= Len(q) /\ Prefix(q, Len(p)) = p

\* structure['structure'][k1]['children'][k2]... : the exception of the
\* subscripts that lead to the item at `parts`, or "none"
NavigateExc(structure, parts) ==
    LET sub == StructureSubscript(structure)
    IN  IF sub # "none" THEN sub
        ELSE IF structure.structure = "null" THEN "TypeError"
        ELSE IF \E i \in 1..Len(parts) :
                   \/ Prefix(parts, i) \notin structure.items
                   \/ i < Len(parts) /\ Prefix(parts, i) \notin structure.withChildren
             THEN "KeyError"
        ELSE "none"

\* What an edit call does before it saves: [exc, result, save, doc]. exc is
\* the exception that leaves the call; save says that the call goes on to
\* save_yaml_structure(doc); otherwise result is what it returns.
Propagates(exc) == [exc |-> exc, result |-> "nothing", save |-> FALSE, doc |-> NoFile]
ReturnsFalse == [exc |-> "none", result |-> "False", save |-> FALSE, doc |-> NoFile]
Saves(doc) == [exc |-> "none", result |-> "nothing", save |-> TRUE, doc |-> doc]

\* (mutant) the change is saved before the KeyError is looked at
CatchKeyErrorSaved(exc) ==
    [exc |-> "none", result |-> "nothing", save |-> TRUE, doc |-> EmptyFile]

\* Lines 102, 134, 158: except KeyError: return False
CatchKeyError(exc) == IF exc = "KeyError" THEN ReturnsFalse ELSE Propagates(exc)

\* update_item(item_id, updates), lines 79-103, up to the save
UpdateItem(loaded, item_id) ==
    LET structure == loaded.val
        id_parts == SplitId(item_id)
        exc == NavigateExc(structure, id_parts)
    IN  IF loaded.exc # "none" THEN Propagates(loaded.exc)
        ELSE IF Len(id_parts) > MaxIdParts THEN ReturnsFalse
        ELSE IF exc # "none" THEN CatchKeyError(exc)
        ELSE Saves(EditDoc(structure,
                 [structure.data EXCEPT ![id_parts] = ItemData(@.id, 1)]))

\* dict[key] = item_data: the item at `path` is the new one, without
\* children; what was under that key is gone.
PutItem(structure, path, id) ==
    LET kept == {q \in structure.items : ~IsPrefixOf(path, q)}
        items == kept \cup {path}
        parents == IF Len(path) > 1 THEN {Prefix(path, Len(path) - 1)} ELSE {}
    IN  [kind |-> structure.kind, structure |-> structure.structure,
         metadata |-> structure.metadata,
         items |-> items,
         withChildren |-> {q \in structure.withChildren : ~IsPrefixOf(path, q)} \cup parents,
         data |-> [q \in items |-> IF q = path THEN ItemData(id, 1) ELSE structure.data[q]]]

\* add_item(parent_id, item_data), lines 105-135, up to the save; `id` is
\* item_data['id']
AddItem(loaded, parent_id, id) ==
    LET structure == loaded.val
        sub == StructureSubscript(structure)
        parent_id_parts == SplitId(parent_id)
        exc == NavigateExc(structure, parent_id_parts)
    IN  IF loaded.exc # "none" THEN Propagates(loaded.exc)
        ELSE IF parent_id = "root"
        THEN IF sub # "none" THEN CatchKeyError(sub)
             ELSE IF structure.structure = "null" THEN Propagates("TypeError")
             ELSE Saves(PutItem(structure, <<id>>, id))
        ELSE IF Len(parent_id_parts) > 2
        THEN ReturnsFalse
        ELSE IF exc # "none" THEN CatchKeyError(exc)
        ELSE Saves(PutItem(structure, Append(parent_id_parts, Last(SplitId(id))), id))

\* del dict[key]: the item and what is under it are gone
DelItem(structure, path) ==
    LET items == {q \in structure.items : ~IsPrefixOf(path, q)}
    IN  [kind |-> structure.kind, structure |-> structure.structure,
         metadata |-> structure.metadata,
         items |-> items,
         withChildren |-> {q \in structure.withChildren : ~IsPrefixOf(path, q)},
         data |-> [q \in items |-> structure.data[q]]]

\* remove_item(item_id), lines 137-159, up to the save
RemoveItem(loaded, item_id) ==
    LET structure == loaded.val
        id_parts == SplitId(item_id)
        exc == NavigateExc(structure, id_parts)
    IN  IF loaded.exc # "none" THEN Propagates(loaded.exc)
        ELSE IF Len(id_parts) > MaxIdParts THEN ReturnsFalse
        ELSE IF exc # "none" THEN CatchKeyError(exc)
        ELSE Saves(DelItem(structure, id_parts))

\* The ids the edit calls are given
EditIds ==
    {ItemId(q) : q \in KeyPaths(2)} \cup {"home_work_home", "home_work_home_work"}

UpdateOp(id) == [kind |-> "update_item", id |-> id, parent |-> ""]
AddOp(parent, id) == [kind |-> "add_item", id |-> id, parent |-> parent]
RemoveOp(id) == [kind |-> "remove_item", id |-> id, parent |-> ""]

EditOps ==
    {UpdateOp(id) : id \in EditIds}
    \cup {RemoveOp(id) : id \in EditIds}
    \cup {AddOp(parent, id) : parent \in {"root", "home", "home_work", "home_work_home"},
                              id \in {"home", "work", "home_work"}}

\* What an edit call does with the document it loaded
Edit(op, loaded) ==
    CASE op.kind = "update_item" -> UpdateItem(loaded, op.id)
      [] op.kind = "add_item" -> AddItem(loaded, op.parent, op.id)
      [] OTHER -> RemoveItem(loaded, op.id)

\* The documents the file holds before the edits: a tree with the 'children'
\* keys its items need, or no 'structure' at all, or nothing
EditDocs ==
    {Authored(YamlDoc("map", "map", TRUE, t, {q \in t : HasChildren(t, q)})) :
        t \in {u \in Trees : Cardinality(u) < MaxItems}}
    \cup {Authored(YamlDoc("map", "absent", TRUE, {}, {})), EmptyFile}

InitEdit ==
    /\ today \in {Date(2024, 2, 27)}
    /\ ticks = 0
    /\ rendered = <<>>
    /\ passState = "running"
    /\ roots = {}
    /\ mdFiles = {}
    /\ dirs = {}
    /\ content = <<>>
    /\ treeCall = NoCall
    /\ yamlFile \in EditDocs
    /\ yamlCall = NoCall
    /\ editors = NoEditors
    /\ saved = <<>>
    /\ html = <<>>
    /\ genPass = NoPass
    /\ launcher = NoLauncher
    /\ busy = {}

Finished(p, result, exc) ==
    [editors EXCEPT ![p] = [@ EXCEPT !.pc = "done", !.result = result, !.exc = exc]]

\* The call starts: load_yaml_structure and the change in memory
BeginEdit(p, op) ==
    /\ editors[p].pc = "idle"
    /\ LET r == Edit(op, LoadYamlStructure)
       IN  editors' = [editors EXCEPT ![p] =
             [pc |-> IF r.save THEN "modified" ELSE "done",
              op |-> op, snapshot |-> yamlFile, doc |-> r.doc,
              result |-> r.result, exc |-> r.exc]]
    /\ UNCHANGED <<yamlFile, yamlCall, saved>>
    /\ UNCHANGED dueVars
    /\ UNCHANGED treeVars
    /\ UNCHANGED genVars
    /\ UNCHANGED runVars

\* save_yaml_structure, line 35: open(path, 'w') empties the file
OpenForWrite(p) ==
    /\ editors[p].pc = "modified"
    /\ yamlFile' = EmptyFile
    /\ editors' = [editors EXCEPT ![p].pc = "opened"]
    /\ UNCHANGED <<yamlCall, saved>>
    /\ UNCHANGED dueVars
    /\ UNCHANGED treeVars
    /\ UNCHANGED genVars
    /\ UNCHANGED runVars

\* save_yaml_structure, lines 36-37: yaml.dump writes the document from the
\* start of the file, and the call returns True. Bytes another process wrote
\* since this one opened the file stay behind the end of a shorter document.
WriteFile(p) ==
    /\ editors[p].pc = "opened"
    /\ yamlFile' \in (IF yamlFile = EmptyFile \/ yamlFile = editors[p].doc
                      THEN {editors[p].doc}
                      ELSE {editors[p].doc, Garbled})
    /\ editors' = Finished(p, "True", "none")
    /\ saved' = Append(saved, p)
    /\ UNCHANGED yamlCall
    /\ UNCHANGED dueVars
    /\ UNCHANGED treeVars
    /\ UNCHANGED genVars
    /\ UNCHANGED runVars

\* save_yaml_structure, lines 38-40: an exception of open or of yaml.dump is
\* printed and the call returns False; what was written stays.
SaveFails(p) ==
    /\ editors[p].pc \in {"modified", "opened"}
    /\ yamlFile' \in (IF editors[p].pc = "modified" THEN {yamlFile} ELSE {yamlFile, Garbled})
    /\ editors' = Finished(p, "False", "none")
    /\ UNCHANGED <<yamlCall, saved>>
    /\ UNCHANGED dueVars
    /\ UNCHANGED treeVars
    /\ UNCHANGED genVars
    /\ UNCHANGED runVars

NextEdit ==
    \/ \E p \in Procs, op \in EditOps : BeginEdit(p, op)
    \/ \E p \in Procs : OpenForWrite(p)
    \/ \E p \in Procs : WriteFile(p)
    \/ \E p \in Procs : SaveFails(p)

SpecEdit == InitEdit /\ [][NextEdit]_vars

\* ------------------------------------------- src/src/structure_exporter.py
Max(S) == CHOOSE x \in S : \A y \in S : y <= x

\* name.lower().replace(" ", "_") of the names of a path, joined by '_'
RECURSIVE ExportId(_)
ExportId(path) ==
    IF Len(path) = 1 THEN LowerName(path[1])
    ELSE ExportId(Front(path)) \o "_" \o LowerName(Last(path))

\* _format_title(name): name.replace("_", " ").replace("-", " ").title()
FormatTitle(name) ==
    CASE name = "go-melt" -> "Go Melt"
      [] name = "x_y" -> "X Y"
      [] OTHER -> DisplayName(name)

\* An item of the exported structure: id, title and file; no due date and no
\* progress (rev 0: the fields an edit adds are not there)
ExportItem(path, file) ==
    [id |-> ExportId(path), rev |-> 0, title |-> FormatTitle(Last(path)), file |-> file]

\* The last entry of a level with a name: an assignment to a key of a dict
\* replaces what the key held.
LastNamed(layer, field, name) ==
    layer[Max({i \in 1..Len(layer) : layer[i][field] = name})]

FieldNames(layer, field) == {layer[i][field] : i \in 1..Len(layer)}

\* _convert_to_structured_format(hierarchy_data), lines 40-99
ConvertToStructuredFormat(hierarchy_data) ==
    LET l1 == {<<a>> : a \in FieldNames(hierarchy_data, "layer1")}
        Layer2(a) == LastNamed(hierarchy_data, "layer1", a).layer2
        l2 == UNION {{<<a, b>> : b \in FieldNames(Layer2(a), "name")} :
                        a \in FieldNames(hierarchy_data, "layer1")}
        Layer3(a, b) == LastNamed(Layer2(a), "name", b).layer3
        l3 == UNION {{<<q[1], q[2], c>> : c \in FieldNames(Layer3(q[1], q[2]), "name")} : q \in l2}
        File(q) ==
            CASE Len(q) = 1 -> LastNamed(hierarchy_data, "layer1", q[1]).layer1_filename
              [] Len(q) = 2 -> LastNamed(Layer2(q[1]), "name", q[2]).filename
              [] OTHER -> LastNamed(Layer3(q[1], q[2]), "name", q[3]).filename
    IN  EditDoc(YamlDoc("map", "map", TRUE, l1 \cup l2 \cup l3, l1 \cup l2),
                [q \in l1 \cup l2 \cup l3 |-> ExportItem(q, File(q))])

\* The stores the pages are generated from before an export: none, or one
\* whose item 'work' was given a due date and a progress by update_item
StoreWithDue ==
    EditDoc(YamlDoc("map", "map", TRUE, {<<"work">>, <<"work", "go-melt">>}, {<<"work">>}),
            (<<"work">> :> [id |-> "work", rev |-> 1, title |-> "Work",
                            file |-> MdRef("data", <<"work">>)])
            @@ (<<"work", "go-melt">> :> [id |-> "work_go-melt", rev |-> 0, title |-> "Go Melt",
                                         file |-> MdRef("data", <<"work", "go-melt">>)]))

ExportStores == {NoFile, StoreWithDue}

InitExport ==
    /\ today \in {Date(2024, 2, 27)}
    /\ ticks = 0
    /\ rendered = <<>>
    /\ passState = "running"
    /\ treeCall = NoCall
    /\ yamlFile \in ExportStores
    /\ yamlCall = NoCall
    /\ editors = NoEditors
    /\ saved = <<>>
    /\ html = <<>>
    /\ genPass = NoPass
    /\ launcher = NoLauncher
    /\ busy = {}
    /\ TreeOnDisk

\* export_complete_structure(), lines 19-38: the projection of ../data is
\* converted and dumped to ../structure.yaml, the file FileUtils loads.
ExportCompleteStructure ==
    /\ treeCall.op = "none"
    /\ yamlCall.op = "none"
    /\ LET data_hierarchy == ParseMdHierarchy(DirRef("data", <<>>))
       IN  /\ yamlFile' = ConvertToStructuredFormat(data_hierarchy)
           /\ treeCall' = Call("export_complete_structure", DirRef("data", <<>>), "none",
                               [tree |-> data_hierarchy, before |-> yamlFile])
    /\ UNCHANGED yamlCall
    /\ UNCHANGED fsVars
    /\ UNCHANGED dueVars
    /\ UNCHANGED editVars
    /\ UNCHANGED genVars
    /\ UNCHANGED runVars

NextExport ==
    \/ ExportCompleteStructure
    \/ CallLoad
    \/ YamlReturn
    \/ Return

SpecExport == InitExport /\ [][NextExport]_vars

\* ------------------------------------ src/src/graph.py, the generation pass
\* A page: the file it was made from and its items
Page(md_file, breadcrumb, data) ==
    [html |-> Last(md_file.parts), file |-> md_file, breadcrumb |-> breadcrumb,
     items |-> GenerateHtmlGraph(data, Last(md_file.parts))]

\* open(html_path, 'w'): a page of the same base name is replaced
WritePage(page) == (page.html :> page.file) @@ html

MainMd == MdRef("data", <<"main">>)

\* The trees of a pass: a tree on disk, with or without ../data/main.md,
\* with or without a file ../pdata/work.md beside ../data/work.md, and with
\* or without a file that is not UTF-8
InitPass ==
    /\ today \in {Date(2024, 2, 27)}
    /\ ticks = 0
    /\ rendered = <<>>
    /\ passState = "running"
    /\ treeCall = NoCall
    /\ yamlFile = NoFile
    /\ yamlCall = NoCall
    /\ editors = NoEditors
    /\ saved = <<>>
    /\ html = <<>>
    /\ genPass = NoPass
    /\ launcher = NoLauncher
    /\ busy = {}
    /\ \E sh \in Shapes, hf \in HeaderFiles, ht \in HeaderTexts,
          main \in BOOLEAN, twin \in BOOLEAN, bad \in HeaderFiles \cup {<<>>} :
         LET dataMd == {Path("data", p) : p \in {q \in CandPaths : sh[q] \in {"md", "both"}}}
             extra == (IF main THEN {Path("data", <<"main">>)} ELSE {})
                      \cup (IF twin THEN {Path("pdata", <<SpineNames[1]>>)} ELSE {})
         IN  /\ Path("data", hf) \in dataMd
             /\ roots = {"data"} \cup (IF twin THEN {"pdata"} ELSE {})
             /\ mdFiles = dataMd \cup extra
             /\ dirs = {Path("data", p) : p \in {q \in CandPaths : sh[q] \in {"dir", "both"}}}
             /\ content = [f \in dataMd \cup extra |->
                             IF f = Path("data", hf) \/ f.root = "pdata" THEN <<Line(1, FALSE, ht)>>
                             ELSE IF f = Path("data", bad) THEN <<BadLine>>
                             ELSE IF f = Path("data", <<"main">>)
                                  THEN <<Line(1, FALSE, SpineNames[1])>>
                             ELSE <<>>]

\* Module level, lines 286-296 and 762-772, without arguments: main.md is
\* parsed (a missing file ends the run with the exception), main.html is
\* written, and generate_all_subgraphs lists the files other than main.md.
StartPass ==
    /\ genPass.pc = "idle"
    /\ LET parsed == LegacyParseMdHierarchy(MainMd)
       IN  IF parsed.exc # "none"
           THEN /\ genPass' = [pc |-> "raised", pending |-> {}]
                /\ treeCall' = Call("parse_md_hierarchy", MainMd, parsed.exc, <<>>)
                /\ html' = html
           ELSE /\ genPass' = [pc |-> "subgraphs",
                               pending |-> {f \in GetMarkdownFilesFromDirectories :
                                               Last(f.parts) # "main"}]
                /\ treeCall' = Call("generate_html_graph", MainMd, "none",
                                    Page(MainMd, <<>>, parsed.data))
                /\ html' = WritePage(Page(MainMd, <<>>, parsed.data))
    /\ UNCHANGED fsVars
    /\ UNCHANGED dueVars
    /\ UNCHANGED yamlVars
    /\ UNCHANGED editVars
    /\ UNCHANGED runVars

\* os.walk goes through the search directories in their order and top down:
\* the files of a directory come before those of the directories in it.
WalksBefore(f, g) ==
    \/ f.root # g.root /\ f.root = SearchDirs[1]
    \/ f.root = g.root /\ Len(f.parts) < Len(g.parts)

\* One turn of the loop of generate_all_subgraphs, lines 743-757: the page of
\* the next file is written, under the file's base name, when the file has
\* level-1 content.
GenerateSubgraph(f) ==
    /\ genPass.pc = "subgraphs"
    /\ f \in genPass.pending
    /\ \A g \in genPass.pending : ~WalksBefore(g, f)
    /\ LET md_file == MdRef(f.root, f.parts)
           parsed == LegacyParseMdHierarchy(md_file)
           page == Page(md_file, GetParentFileInfoDynamic(Last(f.parts)), parsed.data)
       IN  IF parsed.exc = "none" /\ parsed.data # <<>>
           THEN /\ treeCall' = Call("generate_html_graph", md_file, "none", page)
                /\ html' = WritePage(page)
           ELSE /\ treeCall' = Call("parse_md_hierarchy", md_file, parsed.exc, <<>>)
                /\ html' = html
    /\ genPass' = [genPass EXCEPT !.pending = @ \ {f}]
    /\ UNCHANGED fsVars
    /\ UNCHANGED dueVars
    /\ UNCHANGED yamlVars
    /\ UNCHANGED editVars
    /\ UNCHANGED runVars

\* The loop is over: line 775
FinishPass ==
    /\ genPass.pc = "subgraphs"
    /\ genPass.pending = {}
    /\ genPass' = [genPass EXCEPT !.pc = "done"]
    /\ treeCall' = NoCall
    /\ html' = html
    /\ UNCHANGED fsVars
    /\ UNCHANGED dueVars
    /\ UNCHANGED yamlVars
    /\ UNCHANGED editVars
    /\ UNCHANGED runVars

NextPass ==
    \/ StartPass
    \/ \E f \in mdFiles : GenerateSubgraph(f)
    \/ FinishPass

SpecPass == InitPass /\ [][NextPass]_vars

\* ------------------------------------------------ the lines of an .md file
\* The lines a file can hold: text without '#', or one or two '#', followed
\* by a space or not, and a name
LineKinds ==
    {Line(h, sp, t) : h \in {0, 1, 2}, sp \in BOOLEAN, t \in {HeaderOnlyName, SpineNames[2]}}

Bodies == UNION {[1..n -> LineKinds] : n \in 0..MaxLines}

\* read_layers_from_md(filepath) of src/src/graph.py: (text, level) of the
\* lines that start with '#'
RECURSIVE LayersOf(_)
LayersOf(lines) ==
    IF lines = <<>> THEN <<>>
    ELSE IF lines[1].hashes >= 1
         THEN <<[text |-> lines[1].text, level |-> lines[1].hashes]>> \o LayersOf(Tail(lines))
         ELSE LayersOf(Tail(lines))

ReadLayersFromMd(ref) ==
    IF ~(ref.kind = "md" /\ Exists(ref)) THEN [exc |-> "FileNotFoundError", layers |-> <<>>]
    ELSE IF Undecodable(ref) THEN [exc |-> "UnicodeDecodeError", layers |-> <<>>]
    ELSE [exc |-> "none", layers |-> LayersOf(content[Path(ref.root, ref.parts)])]

\* ../data/work.md with a body, with or without ../data/work/go-melt.md
InitHeaders ==
    /\ today \in {Date(2024, 2, 27)}
    /\ ticks = 0
    /\ rendered = <<>>
    /\ passState = "running"
    /\ treeCall = NoCall
    /\ yamlFile = NoFile
    /\ yamlCall = NoCall
    /\ editors = NoEditors
    /\ saved = <<>>
    /\ html = <<>>
    /\ genPass = NoPass
    /\ launcher = NoLauncher
    /\ busy = {}
    /\ roots = {"data"}
    /\ \E body \in Bodies, child \in BOOLEAN :
         LET work == Path("data", <<SpineNames[1]>>)
             sub == Path("data", <<SpineNames[1], SpineNames[2]>>)
         IN  /\ mdFiles = {work} \cup (IF child THEN {sub} ELSE {})
             /\ dirs = IF child THEN {work} ELSE {}
             /\ content = [f \in {work} \cup (IF child THEN {sub} ELSE {}) |->
                             IF f = work THEN body ELSE <<>>]

\* HierarchyBuilder._extract_headers_from_md(md_file_path)
ExtractHeaders(md_file_path) ==
    /\ treeCall.op = "none"
    /\ treeCall' = Call("_extract_headers_from_md", md_file_path, "none",
                        ExtractHeadersFromMd(md_file_path))
    /\ UNCHANGED fsVars
    /\ UNCHANGED dueVars
    /\ UNCHANGED yamlVars
    /\ UNCHANGED editVars
    /\ UNCHANGED genVars
    /\ UNCHANGED runVars

\* read_layers_from_md(filepath) of src/src/graph.py
ReadLayers(filepath) ==
    /\ treeCall.op = "none"
    /\ LET r == ReadLayersFromMd(filepath)
       IN  treeCall' = Call("read_layers_from_md", filepath, r.exc, r.layers)
    /\ UNCHANGED fsVars
    /\ UNCHANGED dueVars
    /\ UNCHANGED yamlVars
    /\ UNCHANGED editVars
    /\ UNCHANGED genVars
    /\ UNCHANGED runVars

HeaderArgs == {MdRef("data", <<SpineNames[1]>>), MdRef("data", <<"nosuch">>)}

NextHeaders ==
    \/ \E a \in HeaderArgs : ExtractHeaders(a)
    \/ \E a \in HeaderArgs : ReadLayers(a)
    \/ \E a \in HeaderArgs : Subitems(a)
    \/ \E a \in HeaderArgs : ParseHierarchy(a)
    \/ Return

SpecHeaders == InitHeaders /\ [][NextHeaders]_vars

\* --------------------------------- src/src/html_generator.py, breadcrumb
\* _create_breadcrumb_html(breadcrumb_path), lines 118-130: an <a> with
\* onclick for every entry but the last, a <span class="current"> for the last
CreateBreadcrumbHtml(breadcrumb_path) ==
    [i \in 1..Len(breadcrumb_path) |->
        IF i < Len(breadcrumb_path)
        THEN [tag |-> "a", name |-> breadcrumb_path[i].name, onclick |-> breadcrumb_path[i].file]
        ELSE [tag |-> "span", name |-> breadcrumb_path[i].name, onclick |-> NoLink]]

\* The breadcrumb of a file, rendered
RenderBreadcrumb(file_path) ==
    /\ treeCall.op = "none"
    /\ file_path.kind = "dir" => Exists(file_path)
    /\ LET breadcrumb_path == GetBreadcrumbForFile(file_path)
       IN  treeCall' = Call("_create_breadcrumb_html", file_path, "none",
                            [path |-> breadcrumb_path,
                             html |-> CreateBreadcrumbHtml(breadcrumb_path)])
    /\ UNCHANGED fsVars
    /\ UNCHANGED dueVars
    /\ UNCHANGED yamlVars
    /\ UNCHANGED editVars
    /\ UNCHANGED genVars
    /\ UNCHANGED runVars

NextCrumbs ==
    \/ \E a \in MdArgs \cup DirArgs : RenderBreadcrumb(a)
    \/ \E a \in MdArgs \cup DirArgs : Breadcrumb(a)
    \/ Return

SpecCrumbs == InitTree /\ [][NextCrumbs]_vars

\* ------------------------------------------------------------ src/run.py
\* find_free_port(8080), line 150
StartPort == 8080

\* The ports find_free_port tries: range(start_port, start_port + 100), cut
\* to MaxPorts ports
PortRange(start_port) == start_port..(start_port + MaxPorts - 1)

NoPort == 0

\* is_port_free(port): the bind succeeds when no process holds the port
IsPortFree(port) == port \notin busy

\* find_free_port(start_port): the first port of the range that is free, or None
FindFreePort(start_port) ==
    LET free == {q \in PortRange(start_port) : IsPortFree(q)}
    IN  IF free = {} THEN NoPort ELSE CHOOSE q \in free : \A r \in free : q <= r

Commands == {"serve", "generate", "search:x", "help", "other"}

\* What subprocess.run of graph.py gives: a return code, or an exception
RunOutcomes == {"0", "1", "exception"}

\* (mutant) the server is started whatever the generation gave
ServeProceedsAlways(outcome) == TRUE

\* Lines 138-147: serve goes on when subprocess.run raised nothing and the
\* return code is 0
ServeProceeds(outcome) == outcome = "0"

InitRun ==
    /\ today \in {Date(2024, 2, 27)}
    /\ ticks = 0
    /\ rendered = <<>>
    /\ passState = "running"
    /\ roots = {}
    /\ mdFiles = {}
    /\ dirs = {}
    /\ content = <<>>
    /\ treeCall = NoCall
    /\ yamlFile = NoFile
    /\ yamlCall = NoCall
    /\ editors = NoEditors
    /\ saved = <<>>
    /\ html = <<>>
    /\ genPass = NoPass
    /\ \E command \in Commands, yaml \in BOOLEAN :
          launcher = [pc |-> "start", command |-> command, yaml |-> yaml,
                      returncode |-> "none", port |-> NoPort, server |-> "none",
                      browser |-> NoPort]
    /\ busy \in SUBSET PortRange(StartPort)

RunFrame ==
    /\ UNCHANGED dueVars
    /\ UNCHANGED treeVars
    /\ UNCHANGED yamlVars
    /\ UNCHANGED editVars
    /\ UNCHANGED genVars

\* main(), lines 76-89 and 102-135, 184-186: without structure.yaml the
\* launcher returns; help, search and an unknown command end without a
\* generation of pages.
Dispatch ==
    /\ launcher.pc = "start"
    /\ launcher' = [launcher EXCEPT !.pc =
          IF launcher.yaml /\ launcher.command \in {"serve", "generate"}
          THEN "generating" ELSE "exit"]
    /\ UNCHANGED busy
    /\ RunFrame

\* Lines 91-101 and 137-147: graph.py is run and waited for
Generate(outcome) ==
    /\ launcher.pc = "generating"
    /\ launcher' = [launcher EXCEPT
          !.returncode = outcome,
          !.pc = IF launcher.command = "serve" /\ ServeProceeds(outcome)
                 THEN "finding" ELSE "exit"]
    /\ UNCHANGED busy
    /\ RunFrame

\* Lines 150-156
FindPort ==
    /\ launcher.pc = "finding"
    /\ LET port == FindFreePort(StartPort)
       IN  launcher' = [launcher EXCEPT !.port = port,
                                        !.pc = IF port = NoPort THEN "exit" ELSE "spawn"]
    /\ UNCHANGED busy
    /\ RunFrame

\* Lines 159-163: the server thread is started, the main thread sleeps
StartThread ==
    /\ launcher.pc = "spawn"
    /\ launcher' = [launcher EXCEPT !.server = "starting", !.pc = "sleeping"]
    /\ UNCHANGED busy
    /\ RunFrame

\* start_server(port), lines 34-48, in the server thread: TCPServer binds the
\* port and serves; an OSError of the bind is printed and the thread ends.
ServerBind ==
    /\ launcher.server = "starting"
    /\ launcher' = [launcher EXCEPT !.server =
          IF IsPortFree(launcher.port) THEN "listening" ELSE "error"]
    /\ UNCHANGED busy
    /\ RunFrame

\* Lines 166-172: after the sleep the browser is opened at the port found
OpenBrowser ==
    /\ launcher.pc = "sleeping"
    /\ launcher' = [launcher EXCEPT !.browser = launcher.port, !.pc = "serving"]
    /\ UNCHANGED busy
    /\ RunFrame

\* Another process binds a port nobody holds, or gives one up
OtherBinds(q) ==
    /\ launcher.pc \in {"finding", "spawn", "sleeping"}
    /\ q \notin busy
    /\ ~(launcher.server = "listening" /\ launcher.port = q)
    /\ busy' = busy \cup {q}
    /\ UNCHANGED launcher
    /\ RunFrame

OtherCloses(q) ==
    /\ launcher.pc \in {"finding", "spawn", "sleeping"}
    /\ q \in busy
    /\ busy' = busy \ {q}
    /\ UNCHANGED launcher
    /\ RunFrame

NextRun ==
    \/ Dispatch
    \/ \E outcome \in RunOutcomes : Generate(outcome)
    \/ FindPort
    \/ StartThread
    \/ ServerBind
    \/ OpenBrowser
    \/ \E q \in PortRange(StartPort) : OtherBinds(q)
    \/ \E q \in PortRange(StartPort) : OtherCloses(q)

SpecRun == InitRun /\ [][NextRun]_vars

\* ------------------------------------------ html_generator.py: the layers

\* FileUtils.is_leaf_node(item_id): the item has no children entries
IsLeafNode(item_id) == ~HasChildren(yamlFile.items, SplitId(item_id))

\* A progress value of an item: absent, or a number
Progresses ==
    {[given |-> FALSE, n |-> 0], [given |-> TRUE, n |-> 50], [given |-> TRUE, n |-> 150]}

\* _get_progress_text_style(progress, color_name, is_clickable), lines 41-68:
\* the words of the class string it returns
GetProgressTextStyle(progress, color_name, is_clickable) ==
    IF progress.given /\ 0 <= progress.n /\ progress.n <= 100
    THEN <<IF is_clickable # "" THEN "layer3-progress-clickable" ELSE "layer3-progress",
           "color-" \o color_name>>
    ELSE <<"color-" \o color_name>>

\* An element of the page: its class words and the id its onclick handler
\* navigates to ("" without a handler)
Element(layer, id, classes, onclick) ==
    [layer |-> layer, id |-> id, classes |-> classes \ {""}, onclick |-> onclick]

\* _build_layer1_section(item, color_name), lines 549-559 and 578
BuildLayer1Section(item, color_name) ==
    LET layer1_id == item.layer1_id
        layer1_has_children == Len(item.layer2) > 0
        layer1_is_leaf == IF layer1_id # "" THEN IsLeafNode(layer1_id) ELSE TRUE
        layer1_clickable_class ==
            IF layer1_has_children /\ ~layer1_is_leaf THEN "clickable" ELSE ""
        layer1_onclick == IF layer1_id # "" /\ ~layer1_is_leaf THEN layer1_id ELSE ""
    IN  Element(1, layer1_id,
                {"layer1", layer1_clickable_class, "color-group-" \o color_name},
                layer1_onclick)

\* _build_layer2_section(layer2_item, color_name), lines 595-614 and 630
BuildLayer2Section(layer2_item, color_name) ==
    LET layer2_id == layer2_item.id
        layer2_is_leaf == IF layer2_id # "" THEN IsLeafNode(layer2_id) ELSE TRUE
    IN  IF layer2_id # "" /\ ~layer2_is_leaf
        THEN Element(2, layer2_id, {"layer2", "color-group-" \o color_name, "clickable"},
                     layer2_id)
        ELSE IF layer2_is_leaf
        THEN Element(2, layer2_id, {"layer2", "color-group-" \o color_name, "leaf"}, "")
        ELSE Element(2, layer2_id, {"layer2", "color-group-" \o color_name}, "")

\* _build_layer3_item(layer3_item, color_name), lines 646-676
BuildLayer3Item(layer3_item, color_name) ==
    IF layer3_item.isdict
    THEN LET layer3_id == layer3_item.id
             layer3_is_leaf == IF layer3_id # "" THEN IsLeafNode(layer3_id) ELSE TRUE
             layer3_clickable_class ==
                 IF layer3_id # "" /\ ~layer3_is_leaf THEN "clickable" ELSE ""
             layer3_onclick == IF layer3_id # "" /\ ~layer3_is_leaf THEN layer3_id ELSE ""
             progress_class ==
                 GetProgressTextStyle(layer3_item.progress, color_name, layer3_clickable_class)
             final_clickable_class ==
                 IF progress_class = <<"layer3-progress-clickable">> THEN ""
                 ELSE layer3_clickable_class
         IN  Element(3, layer3_id,
                     {"layer3", final_clickable_class} \cup SeqToSet(progress_class),
                     layer3_onclick)
    ELSE Element(3, "", {"layer3", "color-" \o color_name}, "")

\* The stores of a rendering: a 'structure' mapping of items
RenderDocs == {d \in YamlDocs : d.kind = "map" /\ d.structure = "map"}

\* The ids the data of a page carries: none, or the id of an item of the store
DataIds == {""} \cup {ItemId(q) : q \in yamlFile.items}

InitRender ==
    /\ today \in {Date(2024, 2, 27)}
    /\ ticks = 0
    /\ rendered = <<>>
    /\ passState = "running"
    /\ roots = {}
    /\ mdFiles = {}
    /\ dirs = {}
    /\ content = <<>>
    /\ treeCall = NoCall
    /\ yamlFile \in RenderDocs
    /\ yamlCall = NoCall
    /\ editors = NoEditors
    /\ saved = <<>>
    /\ html = <<>>
    /\ genPass = NoPass
    /\ launcher = NoLauncher
    /\ busy = {}

RenderFrame ==
    /\ UNCHANGED fsVars
    /\ UNCHANGED dueVars
    /\ UNCHANGED yamlVars
    /\ UNCHANGED editVars
    /\ UNCHANGED genVars
    /\ UNCHANGED runVars

\* A layer-1 item of the data: with or without an id, with or without
\* layer-2 entries
CallBuildLayer1Section(layer1_id, layer2) ==
    /\ treeCall.op = "none"
    /\ LET item == [layer1_id |-> layer1_id, layer2 |-> layer2]
       IN  treeCall' = Call("_build_layer1_section", item, "none",
                            BuildLayer1Section(item, "green"))
    /\ RenderFrame

CallBuildLayer2Section(id) ==
    /\ treeCall.op = "none"
    /\ LET layer2_item == [id |-> id]
       IN  treeCall' = Call("_build_layer2_section", layer2_item, "none",
                            BuildLayer2Section(layer2_item, "green"))
    /\ RenderFrame

\* A layer-3 item: a dict with or without an id and a progress, or a string
CallBuildLayer3Item(isdict, id, progress) ==
    /\ treeCall.op = "none"
    /\ LET layer3_item == [isdict |-> isdict, id |-> id, progress |-> progress]
       IN  treeCall' = Call("_build_layer3_item", layer3_item, "none",
                            BuildLayer3Item(layer3_item, "green"))
    /\ RenderFrame

NextRender ==
    \/ \E id \in DataIds, layer2 \in {<<>>, <<"x">>} : CallBuildLayer1Section(id, layer2)
    \/ \E id \in DataIds : CallBuildLayer2Section(id)
    \/ \E isdict \in BOOLEAN, id \in DataIds, progress \in Progresses :
          CallBuildLayer3Item(isdict, id, progress)
    \/ Return

SpecRender == InitRender /\ [][NextRender]_vars

\* ------------------------------------------------------ claims: the tree

\* The depth of a projection: the three levels parse_md_hierarchy builds
ProjectionDepth == 3

Min2(a, b) == IF a <= b THEN a ELSE b

\* A node is there when it has an .md file or a directory of its name.
NodeExists(r, p) == p # <<>> /\ (IsMdFile(r, p) \/ IsDir(r, p))

\* The children of a node: the entries of its directory and the headers of its file
ChildNames(r, p) ==
    MdNamesIn(r, p) \cup DirNamesIn(r, p) \cup SeqToSet(ExtractHeadersFromMd(MdRef(r, p)))

\* The number of levels below a node
RECURSIVE RemainingDepth(_, _)
RemainingDepth(r, p) ==
    LET cs == ChildNames(r, p)
    IN  IF cs = {} THEN 0
        ELSE 1 + Max({RemainingDepth(r, Append(p, n)) : n \in cs})

\* The longest path of a projection
PathLength(data) ==
    IF data = <<>> THEN 0
    ELSE IF \A i \in 1..Len(data) : data[i].layer2 = <<>> THEN 1
    ELSE IF \A i \in 1..Len(data) : \A j \in 1..Len(data[i].layer2) :
               data[i].layer2[j].layer3 = <<>> THEN 2
    ELSE 3

Parsed == treeCall.op = "HierarchyBuilder.parse_md_hierarchy"

\* C5: the projection of every node of the tree is exactly as deep as the tree
\* below the node, up to three levels.
C5_ProjectionDepth ==
    (Parsed /\ treeCall.arg.kind = "md" /\ NodeExists(treeCall.arg.root, treeCall.arg.parts))
        => PathLength(treeCall.result)
             = Min2(ProjectionDepth, RemainingDepth(treeCall.arg.root, treeCall.arg.parts))

\* every directory of the tree has an .md file of its name
NoDirOnly == \A d \in dirs : IsMdFile(d.root, d.parts)

\* Where every directory has its .md file, the projection depth is the depth
\* of the tree up to three levels.
ProjectionDepthWithMdEverywhere == NoDirOnly => C5_ProjectionDepth

\* The projection of the implicit root
RootProjection == ParseMdHierarchy(DirRef("data", <<>>))

\* C6: resolving a path that matches no node never raises and gives the
\* projection of the implicit root.
C6_UnknownFallsBackToRoot ==
    (/\ treeCall.op \in {"HierarchyBuilder.parse_md_hierarchy", "graph.parse_md_hierarchy"}
     /\ treeCall.arg.kind = "md"
     /\ ~NodeExists(treeCall.arg.root, treeCall.arg.parts))
        => /\ treeCall.exc = "none"
           /\ treeCall.result = RootProjection

\* The resolver asked for the top-level view: the data root, or main.md
RootCrumbCall ==
    \/ treeCall.op = "get_breadcrumb_for_file" /\ treeCall.arg = DirRef("data", <<>>)
    \/ treeCall.op = "get_parent_file_info_dynamic" /\ treeCall.arg = MdRef("data", <<"main">>)

C8_BreadcrumbIsAncestors ==
    (/\ treeCall.op \in {"get_breadcrumb_for_file", "get_parent_file_info_dynamic"}
     /\ treeCall.arg.kind = "md"
     /\ Exists(treeCall.arg))
        => LET parts == treeCall.arg.parts
               k == Len(parts)
               crumbs == treeCall.result
           IN  /\ Len(crumbs) = k
               /\ crumbs[1].name \in {"Data", "Main"}
               /\ \A i \in 2..k : crumbs[i].name = DisplayName(parts[i - 1])
               /\ \A i \in 1..Len(crumbs) : crumbs[i].file # parts

\* What get_breadcrumb_for_file alone gives: the root and the ancestors.
BreadcrumbOfBuilderIsAncestors ==
    treeCall.op = "get_breadcrumb_for_file" => C8_BreadcrumbIsAncestors

Discovered == treeCall.op = "get_markdown_files_from_directories"

C10_WitnessAllAbsent ==
    /\ Discovered
    /\ roots = {}
    /\ treeCall.exc = "none"
    /\ treeCall.result = {}

\* ------------------------------------------------- claims: due-date buckets

\* The date a rendered due value denotes, when it is one of the calendar dates
\* written as an ISO string or held as a date object.
Denotes(v, dt) == v = StrValue(IsoString(dt.y, dt.m, dt.d)) \/ v = DateValue(dt)

\* due date minus today, in whole days, at the moment the item was rendered
DaysFrom(e, dt) == Ordinal(dt) - Ordinal(e.now)

Entries == {rendered[i] : i \in 1..Len(rendered)}

\* C1: whatever the due value and whatever today is, a node is given at most
\* one of the classes overdue / today / soon (this week) / later (this month).
C1_AtMostOneBucket ==
    \A e \in Entries : Cardinality(e.html.css) <= 1

C1_Witness ==
    \E e, f \in Entries :
        /\ e.html.css = {"due-overdue"}
        /\ f.html.css = {"due-later"}

\* C2: with d = due - today in days, a node is overdue iff d < 0, today iff
\* d = 0 and due this week iff 1 <= d <= 6, for an ISO string and for a date.
C2_BucketBoundaries ==
    \A e \in Entries : \A dt \in DueDates :
        Denotes(e.due, dt) =>
            LET d == DaysFrom(e, dt)
            IN  /\ ("due-overdue" \in e.html.css) <=> (d < 0)
                /\ ("due-today" \in e.html.css) <=> (d = 0)
                /\ ("due-soon" \in e.html.css) <=> (1 <= d /\ d <= 6)

C2_Witness ==
    \E e, f \in Entries : \E dt \in DueDates :
        /\ e.due = StrValue(IsoString(dt.y, dt.m, dt.d))
        /\ f.due = DateValue(dt)
        /\ DaysFrom(e, dt) = 6
        /\ e.html.css = {"due-soon"}
        /\ f.html.css = {"due-soon"}

Unparseable == {StrValue(s) : s \in MalformedStrings} \cup {IntValue(5)}

\* C4: a due value that cannot be parsed never raises out of the formatting:
\* its node gets no class and no label, and the pass goes on to the other nodes.
C4_ParseFailureSwallowed ==
    /\ passState # "raised"
    /\ \A e \in Entries : e.due \in Unparseable => e.html = EmptyHtml

C4_Witness ==
    /\ Len(rendered) >= 2
    /\ rendered[1].due \in Unparseable
    /\ rendered[1].html = EmptyHtml
    /\ rendered[2].html.css = {"due-today"}
    /\ passState = "running"

\* ------------------------------------------------- claims: the YAML store

YamlOps == {"load_yaml_structure", "item_exists", "get_item_by_id", "get_all_items"}

\* The document parsed, to something without a top-level 'structure' key
NoStructureKey ==
    \/ yamlFile.kind \in {"null", "text"}
    \/ yamlFile.kind = "map" /\ yamlFile.structure = "absent"

\* C9: a document that cannot be parsed and a document without a top-level
\* 'structure' key both make the load fail with the error of a malformed
\* source (the ValueError of line 30), and nothing of the document reaches
\* the caller.
C9_MalformedSourceFails ==
    (yamlCall.op \in YamlOps /\ (yamlFile.kind = "unparseable" \/ NoStructureKey))
        => /\ yamlCall.exc = "ValueError"
           /\ yamlCall.result = "nothing"

\* What the code does hold to: a document that cannot be parsed makes the
\* load and every reader fail with ValueError.
UnparseableRaisesValueError ==
    (yamlCall.op \in YamlOps /\ yamlFile.kind = "unparseable")
        => /\ yamlCall.exc = "ValueError"
           /\ yamlCall.result = "nothing"

\* A mapping without 'structure' is loaded and returned as it is.
NoStructureLoaded ==
    /\ yamlCall.op = "load_yaml_structure"
    /\ yamlFile = YamlDoc("map", "absent", TRUE, {}, {})
    /\ yamlCall.exc = "none"
    /\ yamlCall.result = yamlFile

\* ------------------------------------------------- claims: the edit calls

\* The add_item call of process p was given the id of an item that the
\* document it loaded already holds.
AddsDuplicate(p) ==
    LET e == editors[p]
    IN  /\ e.op.kind = "add_item"
        /\ e.snapshot.kind = "map" /\ e.snapshot.structure = "map"
        /\ \E q \in e.snapshot.items : e.snapshot.data[q].id = e.op.id

\* C11: a node whose id equals that of an existing node is not silently put
\* in its place: add_item with such an id does not go on to save and does not
\* return True.
C11_DuplicateSurfaced ==
    \A p \in Procs :
        AddsDuplicate(p) =>
            /\ editors[p].pc \notin {"modified", "opened"}
            /\ editors[p].result # "True"

\* add_item took the place of an item and of what was under it, and said True.
DuplicateReplaced ==
    \E p \in Procs :
        /\ AddsDuplicate(p)
        /\ editors[p].result = "True"
        /\ yamlFile = editors[p].doc
        /\ Cardinality(yamlFile.items) < Cardinality(editors[p].snapshot.items)

\* ------------------------------------------- claims: scanning and merging

\* How many times a name is in a list
Count(name, names) == Cardinality({i \in 1..Len(names) : names[i] = name})

Scanned == treeCall.op = "_scan_directory"

Merged == treeCall.op = "_get_subitems_from_filesystem"

\* The directory whose entries _get_subitems_from_filesystem(filepath) lists
ScanPathOf(filepath) == DirRef(filepath.root, filepath.parts)

EntryNames(d) ==
    IF IsDir(d.root, d.parts)
    THEN MdNamesIn(d.root, d.parts) \cup DirNamesIn(d.root, d.parts)
    ELSE {}

\* C12: a scan of a directory gives the names of its entries in
\* lexicographic order, a name that is both X.md and a directory X/ once; in
\* a projection of the root such a name is resolved to the .md file.
C12_ScanSortedOnce ==
    /\ Scanned =>
         LET names == treeCall.result
         IN  /\ \A i \in 1..(Len(names) - 1) : Rank(names[i]) < Rank(names[i + 1])
             /\ SeqToSet(names) = EntryNames(treeCall.arg)
    /\ Merged =>
         LET names == treeCall.result
         IN  /\ \A i \in 1..(Len(names) - 1) : Rank(names[i]) <= Rank(names[i + 1])
             /\ \A n \in EntryNames(ScanPathOf(treeCall.arg)) :
                   IF n \in SeqToSet(ExtractHeadersFromMd(treeCall.arg))
                   THEN Count(n, names) = Count(n, ExtractHeadersFromMd(treeCall.arg))
                   ELSE Count(n, names) = 1
    /\ (Parsed /\ treeCall.arg = DirRef("data", <<>>)) =>
         \A i \in 1..Len(treeCall.result) :
            IsMdFile("data", <<treeCall.result[i].layer1>>)
               => treeCall.result[i].layer1_filename = MdRef("data", <<treeCall.result[i].layer1>>)

\* A directory was scanned that holds go-melt.md, go-melt/ and x_y.md
C12_Witness ==
    /\ Scanned
    /\ treeCall.arg = DirRef("data", <<"work">>)
    /\ IsMdFile("data", <<"work", "go-melt">>)
    /\ IsDir("data", <<"work", "go-melt">>)
    /\ treeCall.result = <<"go-melt", "x_y">>

\* The names the file declares by a header that are also entries of its directory
DeclaredAndOnDisk(filepath) ==
    SeqToSet(ExtractHeadersFromMd(filepath)) \cap EntryNames(ScanPathOf(filepath))

\* C13: in the merged child list of a node, a name that a header of the
\* node's file declares and that is also a file or directory of the node's
\* directory is there exactly once.
C13_MergedOnce ==
    Merged => \A n \in DeclaredAndOnDisk(treeCall.arg) : Count(n, treeCall.result) = 1

\* What the merge does hold to: the entry on disk adds nothing to what the
\* headers declare, so a name that one header declares is there once.
MergeAddsNoEntryTwice ==
    Merged => \A n \in DeclaredAndOnDisk(treeCall.arg) :
                 Count(n, treeCall.result) = Count(n, ExtractHeadersFromMd(treeCall.arg))

\* A name declared by two headers and present as a file is listed twice.
DeclaredTwiceListedTwice ==
    /\ Merged
    /\ \E n \in DeclaredAndOnDisk(treeCall.arg) : Count(n, treeCall.result) = 2

\* ------------------------------------------------ claims: kinds of children

\* The file f declares n by a header and its directory has no entry n.
HeaderOnly(f, n) ==
    /\ f.kind = "md" /\ Exists(f)
    /\ n \in SeqToSet(ExtractHeadersFromMd(f))
    /\ n \notin EntryNames(ScanPathOf(f))

\* The header-only children of the projection in treeCall, level by level,
\* each with the file it was resolved to and its parent's file
HeaderOnlyAt1 ==
    {[ref |-> e.layer1_filename, parent |-> treeCall.arg] :
        e \in {x \in SeqToSet(treeCall.result) : HeaderOnly(treeCall.arg, x.layer1)}}

HeaderOnlyAt2 ==
    UNION {{[ref |-> c.filename, parent |-> e.layer1_filename] :
              c \in {x \in SeqToSet(e.layer2) : HeaderOnly(e.layer1_filename, x.name)}} :
           e \in SeqToSet(treeCall.result)}

HeaderOnlyAt3 ==
    UNION {UNION {{[ref |-> g.filename, parent |-> c.filename] :
                     g \in {x \in SeqToSet(c.layer3) : HeaderOnly(c.filename, x.name)}} :
                  c \in SeqToSet(e.layer2)} :
           e \in SeqToSet(treeCall.result)}

\* The headers of a file that exists are children in its projection.
HeadersKept ==
    (Parsed /\ treeCall.arg.kind = "md" /\ Exists(treeCall.arg)) =>
        SeqToSet(ExtractHeadersFromMd(treeCall.arg))
            \subseteq {treeCall.result[i].layer1 : i \in 1..Len(treeCall.result)}

\* C14: a header-only child is kept in the projection at whatever level it
\* is, and the file it is resolved to is the file of its parent.
C14_HeaderOnlyResolvesToParent ==
    Parsed =>
        /\ HeadersKept
        /\ \A h \in HeaderOnlyAt1 \cup HeaderOnlyAt2 \cup HeaderOnlyAt3 : h.ref = h.parent

\* What the code does: the header-only child is kept at every level; at the
\* third level it is resolved to the file of its parent, above it to no file.
HeaderOnlyByLevel ==
    Parsed =>
        /\ HeadersKept
        /\ \A h \in HeaderOnlyAt1 \cup HeaderOnlyAt2 : h.ref = NoneRef
        /\ \A h \in HeaderOnlyAt3 : h.ref = h.parent

HeaderOnlySeenAtEveryLevel ==
    /\ Parsed
    /\ HeaderOnlyAt3 # {}

\* A node that is a directory without an .md file of its name
DirOnly(r, p) == IsDir(r, p) /\ ~IsMdFile(r, p)

Names(items) == [i \in 1..Len(items) |-> items[i].name]

\* The projection in treeCall is that of the data root or of a node's path
ParsedNode ==
    /\ Parsed
    /\ \/ treeCall.arg = DirRef("data", <<>>)
       \/ treeCall.arg.kind = "md" /\ treeCall.arg.root = "data"

\* C15: a node that is only a directory is a node as one with an .md file
\* is: in a projection that lists it, the .md files and the directories of
\* its directory are listed as its children.
C15_DirOnlyChildrenListed ==
    ParsedNode =>
        \A i \in 1..Len(treeCall.result) :
            LET e == treeCall.result[i]
                path == Append(treeCall.arg.parts, e.layer1)
            IN  DirOnly("data", path) => Names(e.layer2) = ScanDirectory("data", path)

\* What the code does: the directory-only node is listed, without children
\* unless its directory holds an .md file of its own name right under the
\* data root.
DirOnlyListedWithoutChildren ==
    ParsedNode =>
        \A i \in 1..Len(treeCall.result) :
            LET e == treeCall.result[i]
                path == Append(treeCall.arg.parts, e.layer1)
            IN  (DirOnly("data", path) /\ ~IsMdFile("data", Append(path, e.layer1)))
                    => e.layer1_filename = NoneRef /\ e.layer2 = <<>>

\* A directory-only node with entries in its directory was listed
DirOnlyWithEntriesListed ==
    /\ ParsedNode
    /\ \E i \in 1..Len(treeCall.result) :
          LET path == Append(treeCall.arg.parts, treeCall.result[i].layer1)
          IN  DirOnly("data", path) /\ ScanDirectory("data", path) # <<>>

\* A node with an .md file, without a directory of its name and without
\* declared children
LeafFile(ref) ==
    /\ ref.kind = "md" /\ Exists(ref)
    /\ ~IsDir(ref.root, ref.parts)
    /\ ExtractHeadersFromMd(ref) = <<>>
    /\ Level1Layers(content[Path(ref.root, ref.parts)]) = <<>>

PageWritten == treeCall.op = "generate_html_graph"

\* The items of the page in treeCall, of all three levels
PageItems ==
    LET l1 == SeqToSet(treeCall.result.items)
        l2 == UNION {SeqToSet(x.items) : x \in l1}
        l3 == UNION {SeqToSet(x.items) : x \in l2}
    IN  l1 \cup l2 \cup l3

\* A leaf is listed by HierarchyBuilder's projection without children.
LeafListedWithoutChildren ==
    Parsed =>
        \A i \in 1..Len(treeCall.result) :
           (treeCall.result[i].layer1_filename # NoneRef
               /\ LeafFile(treeCall.result[i].layer1_filename))
              => treeCall.result[i].layer2 = <<>>

\* C16: a node whose .md file exists, that has no directory of its name and
\* declares no children, is listed by its parent without children and is
\* rendered without the class "clickable".
C16_LeafNotClickable ==
    PageWritten =>
        \A x \in PageItems :
           (x.file # NoneRef /\ LeafFile(x.file)) => (x.items = <<>> /\ ~x.clickable)

\* What the code does: an item is clickable exactly when its file exists,
\* children or none.
ClickableIffFileExists ==
    PageWritten => \A x \in PageItems : x.clickable <=> (x.file # NoneRef /\ Exists(x.file))

\* A page shows a leaf as clickable.
LeafRenderedClickable ==
    /\ PageWritten
    /\ \E x \in PageItems : x.file # NoneRef /\ LeafFile(x.file) /\ x.clickable /\ x.items = <<>>

\* ------------------------------------------------- claims: saving the store

\* C17: an edit replaces the store at once, also when the save fails part
\* way: every step leaves the file as it was or puts the complete new
\* document of an edit call in its place; the file is never seen empty or
\* partly written.
C17_SaveAtomic ==
    [][\/ yamlFile' = yamlFile
       \/ \E p \in Procs : editors[p].pc # "idle" /\ yamlFile' = editors[p].doc]_vars

\* A single edit call has emptied a file that held a document, and has not
\* written yet.
EmptiedMidSave ==
    \E p \in Procs :
        /\ editors[p].pc = "opened"
        /\ \A q \in Procs \ {p} : editors[q].pc = "idle"
        /\ editors[p].snapshot # EmptyFile
        /\ yamlFile = EmptyFile

\* A single edit call has returned False from its save, and the file holds
\* neither the document it loaded nor the one it built.
FailedSaveLeavesNeither ==
    \E p \in Procs :
        /\ editors[p].pc = "done" /\ editors[p].result = "False" /\ editors[p].op.kind = "update_item"
        /\ \A q \in Procs \ {p} : editors[q].pc = "idle"
        /\ editors[p].snapshot # EmptyFile
        /\ yamlFile \in {EmptyFile, Garbled}

\* What the code does keep: a save that could not open the file leaves it.
NotOpenedLeavesFile ==
    [][\A p \in Procs : (editors[p].pc = "modified" /\ editors'[p].pc = "done")
            => yamlFile' = yamlFile]_vars

BothSaved ==
    /\ \A p \in Procs : editors[p].pc = "done" /\ editors[p].result = "True"
    /\ Len(saved) = Cardinality(Procs)

\* C19: when two edit calls interleave, the one that saves last wins: the
\* file is exactly the document that call saved, built from what it loaded.
C19_LastWriterWins ==
    BothSaved =>
        /\ yamlFile = editors[saved[Len(saved)]].doc
        /\ \A p \in Procs :
              editors[p].doc = Edit(editors[p].op, [val |-> editors[p].snapshot, exc |-> "none"]).doc

\* What the code does keep: the file is the last saved document unless the
\* two saves overlapped and left bytes of both.
LastWriterWinsUnlessGarbled ==
    (BothSaved /\ yamlFile # Garbled) => yamlFile = editors[saved[Len(saved)]].doc

\* Both calls returned True and the file is neither's document.
BothSavedFileGarbled == BothSaved /\ yamlFile = Garbled

\* Both calls returned True without overlap, and the first one's change is lost.
FirstEditLost ==
    /\ BothSaved
    /\ yamlFile = editors[saved[2]].doc
    /\ editors[saved[1]].doc # editors[saved[1]].snapshot
    /\ editors[saved[2]].snapshot = editors[saved[1]].snapshot
    /\ yamlFile # editors[saved[1]].doc

\* ------------------------------------------------- claims: the export

Exported == treeCall.op = "export_complete_structure"

\* The nodes of a projection: path of names, file, names of the children
TreeNodes(tree) ==
    LET N(path, file, layer) ==
            [path |-> path, file |-> file, children |-> FieldNames(layer, "name")]
    IN  UNION {
          {N(<<tree[i].layer1>>, tree[i].layer1_filename, tree[i].layer2)}
          \cup UNION {
             {N(<<tree[i].layer1, tree[i].layer2[j].name>>, tree[i].layer2[j].filename,
                tree[i].layer2[j].layer3)}
             \cup {N(<<tree[i].layer1, tree[i].layer2[j].name, tree[i].layer2[j].layer3[k].name>>,
                     tree[i].layer2[j].layer3[k].filename, <<>>) :
                     k \in 1..Len(tree[i].layer2[j].layer3)} :
             j \in 1..Len(tree[i].layer2)} :
          i \in 1..Len(tree)}

\* The nodes of a loaded document
LoadedNodes(doc) ==
    {[path |-> q, file |-> doc.data[q].file,
      children |-> {Last(c) : c \in {d \in doc.items : Len(d) > 1 /\ Front(d) = q}}] :
        q \in doc.items}

\* Ids, titles, files and child sets of the exported tree are those of the
\* document loaded back.
ExportKeepsShape ==
    Exported =>
        LET loaded == LoadYamlStructure.val
        IN  /\ LoadYamlStructure.exc = "none"
            /\ TreeNodes(treeCall.result.tree) = LoadedNodes(loaded)
            /\ \A q \in loaded.items :
                  /\ loaded.data[q].id = ExportId(q)
                  /\ loaded.data[q].title = FormatTitle(Last(q))

\* The due date and progress a node had in the store are those of the node
\* loaded back.
ExportKeepsDue ==
    Exported =>
        LET loaded == LoadYamlStructure.val
            before == treeCall.result.before
        IN  before.kind = "map" =>
               \A q \in before.items \cap loaded.items : loaded.data[q].rev = before.data[q].rev

DueLostByExport ==
    /\ Exported
    /\ treeCall.result.before = StoreWithDue
    /\ <<"work">> \in yamlFile.items
    /\ yamlFile.data[<<"work">>].rev = 0

\* ------------------------------------------- claims: the generation pass

PassOver == genPass.pc = "done"

\* The nodes a page is due to: the .md files found, main.md apart
PageNodes == {f \in GetMarkdownFilesFromDirectories : Last(f.parts) # "main"}

\* C20: a full generation pass writes one HTML document for every resolvable
\* node and one for the root, each named after its node.
C20_OnePagePerNode ==
    PassOver =>
        /\ "main" \in DOMAIN html
        /\ \A f \in PageNodes :
              /\ Last(f.parts) \in DOMAIN html
              /\ html[Last(f.parts)] = MdRef(f.root, f.parts)

\* A file whose parse gives level-1 content
Parses(f) ==
    LET parsed == LegacyParseMdHierarchy(MdRef(f.root, f.parts))
    IN  parsed.exc = "none" /\ parsed.data # <<>>

\* What the code does write: main.html, and one page per base name of the
\* files whose parse gives level-1 content.
PagesOfFilesWithContent ==
    genPass.pc = "done" =>
        DOMAIN html = {"main"} \cup
            {Last(f.parts) : f \in {g \in PageNodes : Parses(g)}}

\* The pass is over and a file that exists has no page.
NodeWithoutPage ==
    /\ genPass.pc = "done"
    /\ \E f \in PageNodes : Last(f.parts) \notin DOMAIN html

\* The pass is over and two files share one page.
TwoNodesOnePage ==
    /\ genPass.pc = "done"
    /\ \E f, g \in PageNodes :
          f # g /\ Last(f.parts) = Last(g.parts) /\ Last(f.parts) \in DOMAIN html

\* The pass ended with an exception before any page was written.
PassRaisedWithoutPages == genPass.pc = "raised" /\ DOMAIN html = {}

\* C21: an anomaly while one node's page is generated (a child file that
\* cannot be read, an exception in the parse) does not abort the pass: once
\* the pass has started on a main.md that is there, the pages of the other
\* nodes are written.
C21_AnomalyDoesNotAbort ==
    (genPass.pc \in {"done", "raised"} /\ Exists(MainMd) /\ ~Undecodable(MainMd)) =>
        \A f \in PageNodes : Parses(f) => Last(f.parts) \in DOMAIN html

\* What the code does keep: an exception in a turn of the loop of
\* generate_all_subgraphs leaves the pages of the other turns.
LoopContainsAnomaly ==
    genPass.pc = "done" => \A f \in PageNodes : Parses(f) => Last(f.parts) \in DOMAIN html

\* A child file of main.md that is not UTF-8 has ended the pass, and a file
\* that parses has no page.
ChildAnomalyAbortsPass ==
    /\ genPass.pc = "raised"
    /\ Exists(MainMd) /\ ~Undecodable(MainMd)
    /\ \E f \in PageNodes : Parses(f) /\ Last(f.parts) \notin DOMAIN html

\* The pass went through although a file could not be read in one turn.
TurnAnomalySkipped ==
    /\ genPass.pc = "done"
    /\ \E f \in PageNodes : LegacyParseMdHierarchy(MdRef(f.root, f.parts)).exc # "none"
    /\ \E f \in PageNodes : Last(f.parts) \in DOMAIN html

\* ------------------------------------------------- claims: header lines

\* The texts of the lines of a body that start with exactly one '#'
RECURSIVE SingleHashTexts(_)
SingleHashTexts(lines) ==
    IF lines = <<>> THEN <<>>
    ELSE IF lines[1].hashes = 1 THEN <<lines[1].text>> \o SingleHashTexts(Tail(lines))
    ELSE SingleHashTexts(Tail(lines))

HeadersExtracted == treeCall.op = "_extract_headers_from_md" /\ Exists(treeCall.arg)

LayersRead == treeCall.op = "read_layers_from_md" /\ treeCall.exc = "none"

BodyOf(ref) == content[Path(ref.root, ref.parts)]

\* The level-1 items among the layers read
RECURSIVE Level1Of(_)
Level1Of(layers) ==
    IF layers = <<>> THEN <<>>
    ELSE IF layers[1].level = 1 THEN <<layers[1].text>> \o Level1Of(Tail(layers))
    ELSE Level1Of(Tail(layers))

\* What graph.py's read_layers_from_md does: its level-1 items are the lines
\* with exactly one '#'.
LegacyLevel1IsSingleHash ==
    LayersRead => Level1Of(treeCall.result) = SingleHashTexts(BodyOf(treeCall.arg))

\* C22: the lines with exactly one '#' in front, and only these, declare the
\* header children of a node: a line with two or more '#' adds no child, a
\* heading line with one '#' does.
C22_SingleHashDeclares ==
    /\ HeadersExtracted => treeCall.result = SingleHashTexts(BodyOf(treeCall.arg))
    /\ LegacyLevel1IsSingleHash

\* What HierarchyBuilder does: a header is a line with '#' in front whose
\* second character is no space, two '#' included.
HeaderIsHashWithoutSpace ==
    HeadersExtracted =>
        LET body == BodyOf(treeCall.arg)
            hs == {i \in 1..Len(body) : body[i].hashes >= 1 /\ ~(body[i].hashes = 1 /\ body[i].space)}
        IN  /\ Len(treeCall.result) = Cardinality(hs)
            /\ \A i \in hs : body[i].hashes = 1 => body[i].text \in SeqToSet(treeCall.result)

\* A line '##todo' has added the child '#todo'.
DoubleHashAddsChild ==
    /\ treeCall.op = "_get_subitems_from_filesystem" /\ Exists(treeCall.arg)
    /\ BodyOf(treeCall.arg) = <<Line(2, FALSE, HeaderOnlyName)>>
    /\ "#" \o HeaderOnlyName \in SeqToSet(treeCall.result)

\* A heading line '# todo' has added no child.
HeadingWithSpaceIgnored ==
    /\ HeadersExtracted
    /\ BodyOf(treeCall.arg) = <<Line(1, TRUE, HeaderOnlyName)>>
    /\ treeCall.result = <<>>

\* ------------------------------------------- claims: the breadcrumb rendered

CrumbsRendered == treeCall.op = "_create_breadcrumb_html"

\* C23: when the resolver's breadcrumb is rendered, every ancestor entry of
\* it is a navigable link to that ancestor's page; the current node, which
\* is not in the resolver's result, is the only terminus without a link.
C23_AncestorsAreLinks ==
    CrumbsRendered =>
        \A i \in 1..Len(treeCall.result.path) :
            /\ treeCall.result.html[i].tag = "a"
            /\ treeCall.result.html[i].onclick = treeCall.result.path[i].file

\* What the code does: the entries before the last are links, the last
\* entry of the path it is given is the span "current".
LastEntryIsCurrent ==
    CrumbsRendered =>
        LET n == Len(treeCall.result.path)
        IN  /\ Len(treeCall.result.html) = n
            /\ \A i \in 1..(n - 1) : treeCall.result.html[i].tag = "a"
            /\ n > 0 => treeCall.result.html[n].tag = "span"

\* The parent of a file two levels down is rendered as the current page,
\* without a link.
ParentRenderedAsCurrent ==
    /\ CrumbsRendered
    /\ treeCall.arg = MdRef("data", <<SpineNames[1], SpineNames[2]>>)
    /\ treeCall.result.path[2] = Crumb(DisplayName(SpineNames[1]), <<SpineNames[1]>>)
    /\ treeCall.result.html[2].tag = "span"

\* ------------------------------------------------- claims: the launcher

ServerStarted == launcher.server # "none"

BrowserOpened == launcher.browser # NoPort

\* C24: in 'serve' the server is started and the browser opened only after
\* the generation has finished with exit code 0; when the generation fails
\* neither happens, and 'generate' never starts a server.
C24_ServeAfterGeneration ==
    /\ (ServerStarted \/ BrowserOpened) =>
          (launcher.command = "serve" /\ launcher.returncode = "0")
    /\ launcher.returncode \in {"1", "exception"} => (~ServerStarted /\ ~BrowserOpened)
    /\ launcher.command = "generate" => ~ServerStarted

\* The server was started and the browser opened after a generation that
\* returned 0.
C24_Witness ==
    /\ launcher.command = "serve" /\ launcher.returncode = "0"
    /\ ServerStarted /\ BrowserOpened

\* A generation that failed has ended the launcher.
GenerationFailedExit ==
    launcher.pc = "exit" /\ launcher.command = "serve" /\ launcher.returncode = "1"

\* C30: when the browser is opened at a port, the server thread listens on
\* that port, also when another process took the port between the check of
\* find_free_port and the bind.
C30_BrowserPortIsServed ==
    BrowserOpened => (launcher.server = "listening" /\ launcher.port = launcher.browser)

\* What the code does keep: the port found is the lowest free port of the
\* range at the time of the check, None when there is none, and the browser
\* is opened at the port found.
PortFoundIsLowestFree ==
    [][(launcher.pc = "finding" /\ launcher'.pc # "finding") =>
          /\ launcher'.port = FindFreePort(StartPort)
          /\ launcher'.port # NoPort =>
                (launcher'.port \notin busy
                   /\ \A q \in PortRange(StartPort) : q < launcher'.port => q \in busy)
          /\ launcher'.port = NoPort => PortRange(StartPort) \subseteq busy]_vars

\* Another process took the port after the check: the bind failed, and the
\* browser was opened at the other process's port.
BrowserAtForeignPort ==
    /\ BrowserOpened
    /\ launcher.server = "error"
    /\ launcher.browser \in busy

\* The browser was opened before the server thread had bound the port.
BrowserBeforeBind == BrowserOpened /\ launcher.server = "starting"

\* ---------------------------------------- claims: the store's lookups

\* Process p's add_item has returned True and the file holds what it saved
AddedBy(p) ==
    /\ editors[p].pc = "done"
    /\ editors[p].op.kind = "add_item"
    /\ editors[p].result = "True"
    /\ yamlFile = editors[p].doc

\* The key path add_item stores the item at (lines 112 and 129)
AddedPath(op) ==
    IF op.parent = "root" THEN <<op.id>>
    ELSE Append(SplitId(op.parent), Last(SplitId(op.id)))

\* The lookups by the item's id find the item that was added
AddedFound(p) ==
    /\ ItemExists(editors[p].op.id).result = TRUE
    /\ GetItemById(editors[p].op.id).result = AddedPath(editors[p].op)
    /\ yamlFile.data[AddedPath(editors[p].op)] = ItemData(editors[p].op.id, 1)

\* C25: after add_item(parent_id, item) has returned True,
\* item_exists(item['id']) is True and get_item_by_id(item['id']) returns
\* the added item, for every parent and every id.
C25_AddedItemFound == \A p \in Procs : AddedBy(p) => AddedFound(p)

\* What the code does keep: the added item is found by its id when the id is
\* the keys of the path it was stored at, joined by '_', and no key has a '_'.
AddedFoundWhenIdIsKeyPath ==
    \A p \in Procs :
       (/\ AddedBy(p)
        /\ AddedPath(editors[p].op) \in KeyPaths(MaxIdParts)
        /\ editors[p].op.id = ItemId(AddedPath(editors[p].op)))
          => AddedFound(p)

\* An item added under 'root' with an id of two parts is not found by its id.
AddedAtRootNotFound ==
    \E p \in Procs :
       /\ AddedBy(p)
       /\ editors[p].op.parent = "root"
       /\ editors[p].op.id = "home_work"
       /\ ItemExists("home_work").result = FALSE

\* An item added under a parent with an id that does not begin with the
\* parent's id is not found by its id, or another item is.
AddedUnderParentNotFound ==
    \E p \in Procs :
       /\ AddedBy(p)
       /\ editors[p].op.parent = "home"
       /\ editors[p].op.id = "work"
       /\ ~AddedFound(p)

\* An item added with the id of its key path is found.
AddedWithKeyPathIdFound ==
    \E p \in Procs :
       /\ AddedBy(p)
       /\ editors[p].op.parent = "home"
       /\ editors[p].op.id = "home_work"
       /\ AddedFound(p)

Enumerated == yamlCall.op = "get_all_items" /\ yamlCall.exc = "none"

\* The id of an item of a document whose ids are the keys of the paths
IdOf(entry) == ItemId(entry.item)

\* C26: every item get_all_items returns, at any depth, is found by
\* item_exists and returned by get_item_by_id when looked up with its id.
C26_EnumeratedAreFound ==
    Enumerated =>
       \A i \in 1..Len(yamlCall.result) :
          /\ ItemExists(IdOf(yamlCall.result[i])).result = TRUE
          /\ GetItemById(IdOf(yamlCall.result[i])).result = yamlCall.result[i].item

\* What the code does keep: the items of the first MaxIdParts levels are
\* found, those below are not.
EnumeratedFoundToDepth ==
    Enumerated =>
       \A i \in 1..Len(yamlCall.result) :
          LET entry == yamlCall.result[i]
          IN  /\ ItemExists(IdOf(entry)).result = (entry.level <= MaxIdParts)
              /\ entry.level <= MaxIdParts => GetItemById(IdOf(entry)).result = entry.item
              /\ entry.level > MaxIdParts => GetItemById(IdOf(entry)).result = "None"

\* get_all_items has returned an item of the fourth level, which item_exists
\* does not find.
EnumeratedDeepNotFound ==
    /\ Enumerated
    /\ \E i \in 1..Len(yamlCall.result) :
          /\ yamlCall.result[i].level = MaxIdParts + 1
          /\ ItemExists(IdOf(yamlCall.result[i])).result = FALSE

\* ------------------------------------ claims: the store's failed edits

\* The target of an update or a removal, or the parent of an addition, is
\* not in the document the call loaded, or its id has more parts than the
\* call walks.
Unresolved(e) ==
    /\ e.op.kind # "none"
    /\ e.snapshot.kind = "map"
    /\ e.snapshot.structure # "null"
    /\ IF e.op.kind = "add_item"
       THEN \/ e.op.parent = "root" /\ e.snapshot.structure = "absent"
            \/ e.op.parent # "root" /\ SplitId(e.op.parent) \notin e.snapshot.items
            \/ e.op.parent # "root" /\ Len(SplitId(e.op.parent)) >= MaxIdParts
       ELSE \/ SplitId(e.op.id) \notin e.snapshot.items
            \/ Len(SplitId(e.op.id)) > MaxIdParts

\* C27: when update_item, add_item or remove_item returns False because the
\* target or the parent does not resolve, no save is performed and the file
\* is left as it was.
C27_UnresolvedLeavesStore ==
    /\ [](\A p \in Procs :
            Unresolved(editors[p]) =>
               /\ editors[p].pc = "done"
               /\ editors[p].result = "False"
               /\ \A i \in 1..Len(saved) : saved[i] # p)
    /\ [][\A p \in Procs :
            (editors[p].pc = "idle" /\ Unresolved(editors'[p])) => yamlFile' = yamlFile]_vars

\* One call of each kind has returned False for an id that does not resolve,
\* one of them for an id of too many parts.
C27_Witness ==
    \E p \in Procs :
       /\ Unresolved(editors[p])
       /\ editors[p].result = "False"
       /\ yamlFile = editors[p].snapshot
       /\ yamlFile.items # {}

UnresolvedTooManyParts ==
    \E p \in Procs :
       /\ Unresolved(editors[p])
       /\ editors[p].result = "False"
       /\ editors[p].op.kind = "add_item"
       /\ editors[p].op.parent = "home_work_home"

\* ------------------------------------- claims: the pages of distinct nodes

\* A step keeps the pages that were written: no page gets another file's
\* content
PagesKept == \A n \in DOMAIN html : n \in DOMAIN html' /\ html'[n] = html[n]

\* C28: in a generation pass distinct nodes are written to distinct output
\* files; no page is overwritten by the page of another node.
C28_DistinctNodesDistinctPages == [][PagesKept]_vars

SameBaseName == \E f, g \in mdFiles : f # g /\ Last(f.parts) = Last(g.parts)

\* What the code does keep: files of distinct base names get distinct pages.
DistinctBaseNamesDistinctPages == [][~SameBaseName => PagesKept]_vars

\* The page of ../pdata/work.md has been written over that of ../data/work.md.
TwinPageOverwritten ==
    /\ treeCall.op = "generate_html_graph"
    /\ treeCall.arg = MdRef("pdata", <<SpineNames[1]>>)
    /\ Parses(Path("data", <<SpineNames[1]>>))
    /\ Path("data", <<SpineNames[1]>>) \in mdFiles
    /\ html[SpineNames[1]] = MdRef("pdata", <<SpineNames[1]>>)

\* ------------------------------------ claims: the clickable elements

ElementBuilt ==
    treeCall.op \in {"_build_layer1_section", "_build_layer2_section", "_build_layer3_item"}

HasOnclick(e) == e.onclick # ""

MarkedClickable(e) == "clickable" \in e.classes

\* The element has an id, and the item of that id has children
IdOfNonLeaf(e) == e.id # "" /\ ~IsLeafNode(e.id)

\* C29: a layer-1, layer-2 or layer-3 element carries an onclick handler if
\* and only if it has the 'clickable' class, and both only for elements that
\* have an id and are not leaves.
C29_OnclickIffClickable ==
    ElementBuilt =>
       /\ HasOnclick(treeCall.result) <=> MarkedClickable(treeCall.result)
       /\ HasOnclick(treeCall.result) => IdOfNonLeaf(treeCall.result)

\* What the code does keep: the handler is there exactly for the elements
\* with the id of a non-leaf; in layers 2 and 3 the class goes with the
\* handler, in layer 1 the class also needs layer-2 entries in the data.
OnclickIffIdOfNonLeaf ==
    ElementBuilt =>
       /\ HasOnclick(treeCall.result) <=> IdOfNonLeaf(treeCall.result)
       /\ HasOnclick(treeCall.result) => treeCall.result.onclick = treeCall.result.id
       /\ treeCall.result.layer # 1 =>
             (MarkedClickable(treeCall.result) <=> HasOnclick(treeCall.result))
       /\ treeCall.result.layer = 1 =>
             (MarkedClickable(treeCall.result) <=>
                 (HasOnclick(treeCall.result) /\ Len(treeCall.arg.layer2) > 0))

\* A layer-1 element of a non-leaf without layer-2 entries in the data has
\* the handler and not the class.
Layer1OnclickNotClickable ==
    /\ treeCall.op = "_build_layer1_section"
    /\ treeCall.arg.layer2 = <<>>
    /\ IdOfNonLeaf(treeCall.result)
    /\ HasOnclick(treeCall.result)
    /\ ~MarkedClickable(treeCall.result)

\* A layer-3 element with a progress and the id of a non-leaf has the
\* handler and both classes.
Layer3ProgressClickable ==
    /\ treeCall.op = "_build_layer3_item"
    /\ HasOnclick(treeCall.result)
    /\ {"clickable", "layer3-progress-clickable"} \subseteq treeCall.result.classes

====
